---- MODULE Spec2Model ----
(***************************************************************************)
(* Amargo y Dulce storefront: cart store, order creation, payment          *)
(* preference creation, MercadoPago webhook reconciliation and invoice     *)
(* generation, modelled from the TypeScript sources.                       *)
(*                                                                         *)
(* The module holds several specifications over one set of variables:      *)
(*   SpecCart  the zustand cart store (addItem/inc/dec/removeItem/clear)    *)
(*   SpecPref  POST /api/mp/create-preference against stored orders         *)
(*   SpecSeq   orders/create, the webhook handler and invoices/generate,    *)
(*             every awaited backend call a separate step, one request      *)
(*             handled at a time                                            *)
(***************************************************************************)
EXTENDS Integers, Sequences, FiniteSets, TLC

(* ------------------------------------------------------------------ *)
(* Bounds of the model                                                 *)
(* ------------------------------------------------------------------ *)

\* largest quantity a cart line may reach through inc/addItem in the model
MaxQty == 3
\* largest stock value a product object carries
MaxStock == 2
\* largest number of lines the cart holds in the model
MaxLines == 2
\* largest number of orders created
MaxOrders == 1
\* number of calendar days the server clock passes through
MaxDay == 2
\* largest number of webhook invocations
MaxDeliveries == 2
\* largest number of direct calls of the invoice generation endpoint
MaxGenCalls == 2

(* ------------------------------------------------------------------ *)
(* Encodings of JavaScript values                                       *)
(* ------------------------------------------------------------------ *)

\* null / undefined for string-valued fields
Null == "<null>"
\* null / undefined for number-valued fields (stock)
NoNum == -1
\* a non-finite number (NaN, undefined coerced by Number())
NaN == -1000

Max(a, b) == IF a >= b THEN a ELSE b
Min(a, b) == IF a <= b THEN a ELSE b

\* a product that the products query does not return (missing or unpublished)
Absent == -2

VARIABLES
  items,         \* cart store: CartState.items, a sequence of cart lines
  orders,        \* backend: the order records, orders[n] has documentId n
  products,      \* backend: product documentId -> stock (NoNum = null, Absent)
  prefLog,       \* preference bodies sent to the payment provider
  prefResp,      \* the response of the last create-preference call
  invoices,      \* backend: the invoice records
  files,         \* backend: the uploaded files
  today,         \* the calendar day of the server clock
  pc,            \* per request handler: the await it is suspended at
  loc,           \* per request handler: its local variables
  lastResp,      \* the response most recently returned by a handler (to: which)
  deliveries,    \* number of webhook invocations so far
  genCalls,      \* number of direct calls of invoices/generate so far
  lastOp,        \* cart store: the last operation, its argument and the items before it
  page,          \* checkout page: phase, polling effect, submission
  mail,          \* email endpoint: de-duplication cache, provider, handlers
  access         \* order read and invoice download endpoints: the last request

vars == <<items, orders, products, prefLog, prefResp, invoices, files, today,
          pc, loc, lastResp, deliveries, genCalls, lastOp, page, mail, access>>
\* what the cart store does not touch
notCartVars == <<orders, products, prefLog, prefResp, invoices, files, today,
                 pc, loc, lastResp, deliveries, genCalls, page, mail, access>>
\* what order creation and preference creation do not touch
notPrefVars == <<invoices, files, today, pc, loc, lastResp, deliveries, genCalls,
                 lastOp, page, mail, access>>
\* what the webhook handler and invoice generation do not touch
notHookVars == <<items, products, prefLog, prefResp, lastOp, page, mail, access>>

\* the request handlers in flight: webhook invocations and direct callers of
\* POST /api/invoices/generate
Hooks == {"h1", "h2"}
\* the webhook invocation of the specifications in which at most one is in flight
OneHook == {"h1"}
Gens == {"g1"}
Procs == Hooks \cup Gens

\* the local variables of a handler that is not running
LocIdle ==
  [ paymentId |-> Null, mpStatus |-> Null, mpStatusDetail |-> Null,
    mpMerchantOrderId |-> Null, mpExternalReference |-> Null,
    order |-> 0, prevStatus |-> Null, nextStatus |-> Null,
    orderId |-> 0, statusRead |-> Null, invoiceNumber |-> <<>>, fileId |-> 0,
    prior |-> <<>>, gen |-> <<>> ]

\* no response yet
RespNone ==
  [ to |-> "", status |-> 0, why |-> "", alreadyExists |-> FALSE,
    invoiceNumber |-> <<>>, pdfUrl |-> 0, prior |-> <<>>, statusRead |-> Null,
    becamePaid |-> FALSE ]

\* the products of the catalogue
ProductDocs == {"p1", "p2"}

\* no call answered yet; readsOk records that the server was configured and that
\* the order and product reads of the call succeeded
NoResp == [status |-> 0, problems |-> {}, sent |-> FALSE, orderId |-> 0, readsOk |-> FALSE]

\* nothing stored in the backend, no request in flight
BackendEmpty ==
  /\ orders = <<>>
  /\ invoices = {}
  /\ files = {}
  /\ today = 1
  /\ pc = [p \in Procs |-> "idle"]
  /\ loc = [p \in Procs |-> LocIdle]
  /\ lastResp = RespNone
  /\ deliveries = 0
  /\ genCalls = 0

\* no cart operation yet
NoOp == [op |-> "none", slug |-> Null, before |-> <<>>]

\* the checkout page is not open
PageClosed == [open |-> FALSE]

\* the email endpoint has handled nothing
MailEmpty == [used |-> FALSE]

\* no order read or invoice download requested
AccessNone == [used |-> FALSE]

\* the parts of the system a specification leaves out stay as constructed
CartUntouched == lastOp = NoOp
PageUntouched == page = PageClosed
MailUntouched == mail = MailEmpty
AccessUntouched == access = AccessNone

\* no preference requested yet
PrefEmpty ==
  /\ prefLog = {}
  /\ prefResp = NoResp

(* ================================================================== *)
(* Cart store (src/unnamed/part_000)                                    *)
(* ================================================================== *)

\* normalizeQty: non-finite -> 1, otherwise max(0, floor(n))
normalizeQty(v) == IF v = NaN THEN 1 ELSE Max(0, v)

\* pickStockOrNull: null/""/non-finite -> null, otherwise max(0, trunc(n))
pickStockOrNull(raw) == IF raw = NoNum THEN NoNum ELSE Max(0, raw)

\* clampQty: normalizeQty, then min with the stock when the stock is known
clampQty(nextQty, stock) ==
  LET q == normalizeQty(nextQty)
  IN  IF stock = NoNum THEN q ELSE Min(q, stock)

\* String(idNum) for the numeric ids of the model
IdString(idNum) == IF idNum = 1 THEN "1" ELSE "2"

\* normalizeCartItem: documentId, slug fallback (slug, else id, else documentId,
\* else "item"), stock and qty of the stored line
normalizeCartItem(product, qty) ==
  LET idNum == IF product.id = NaN THEN 0 ELSE product.id
      documentId == product.documentId
      slug == IF product.slug # Null THEN product.slug
              ELSE IF idNum # 0 THEN IdString(idNum)
              ELSE IF documentId # Null THEN documentId
              ELSE "item"
  IN  [ documentId |-> documentId,
        slug       |-> slug,
        stock      |-> pickStockOrNull(product.stock),
        qty        |-> normalizeQty(qty) ]

\* an identity key that is the slug alone
KeyOfSlugOnly(i) == i.slug

\* identity key of a line: i.documentId ?? i.slug
KeyOf(i) == IF i.documentId # Null THEN i.documentId ELSE i.slug

\* the merged line of addItem for a line whose key is already in the cart
MergedLine(i, addQty, existingStock) ==
  LET nextQtyRaw == normalizeQty(i.qty) + addQty
      nextQty    == Max(1, clampQty(nextQtyRaw, existingStock))
  IN  [i EXCEPT !.stock = existingStock, !.qty = nextQty]

\* addItem's state update
AddItemResult(state, product, qty) ==
  LET addQty     == Max(1, normalizeQty(qty))
      normalized == normalizeCartItem(product, addQty)
      key        == KeyOf(normalized)
      hits       == {k \in 1..Len(state) : KeyOf(state[k]) = key}
  IN  IF hits # {}
      THEN LET existing == state[CHOOSE k \in hits : \A j \in hits : k <= j]
               existingStock == IF existing.stock # NoNum THEN existing.stock
                                ELSE normalized.stock
           IN  [k \in 1..Len(state) |->
                  IF KeyOf(state[k]) # key THEN state[k]
                  ELSE MergedLine(state[k], addQty, existingStock)]
      ELSE IF normalized.stock # NoNum /\ normalized.stock <= 0
      THEN state
      ELSE LET initialQty == Max(1, clampQty(normalized.qty, normalized.stock))
           IN  Append(state, [normalized EXCEPT !.qty = initialQty])

\* inc's line update
IncLine(i) ==
  LET stock      == i.stock
      nextQtyRaw == Max(1, normalizeQty(i.qty) + 1)
      nextQty    == Max(1, clampQty(nextQtyRaw, stock))
  IN  [i EXCEPT !.qty = nextQty]

IncResult(state, slug) ==
  [k \in 1..Len(state) |->
     IF state[k].slug # slug THEN state[k] ELSE IncLine(state[k])]

\* dec's line update: one less, 0 allowed, lines at 0 filtered out
DecLine(i) == [i EXCEPT !.qty = normalizeQty(normalizeQty(i.qty) - 1)]

\* dec without the filter that drops the lines that reached 0
DecResultKeepZero(state, slug) ==
  [k \in 1..Len(state) |->
     IF state[k].slug # slug THEN state[k] ELSE DecLine(state[k])]

DecResult(state, slug) ==
  LET mapped == [k \in 1..Len(state) |->
                   IF state[k].slug # slug THEN state[k] ELSE DecLine(state[k])]
      p(i) == normalizeQty(i.qty) > 0
  IN  SelectSeq(mapped, p)

RemoveItemResult(state, slug) ==
  LET p(i) == i.slug # slug
  IN  SelectSeq(state, p)

\* the product objects and quantities handed to the store
DocIds == {Null, "d1"}
Slugs == {Null, "a"}
NumIds == {0, 1}
RawStocks == {NoNum} \cup (-1..MaxStock)
ProductInputs ==
  [documentId : DocIds, slug : Slugs, id : NumIds, stock : RawStocks]
QtyInputs == {NaN, -1, 2}
SlugInputs == {"a", "1", "d1", "item"}

CartInit ==
  /\ items = <<>>
  /\ lastOp = NoOp
  /\ products = [d \in ProductDocs |-> NoNum]
  /\ PrefEmpty
  /\ BackendEmpty
  /\ PageUntouched /\ MailUntouched /\ AccessUntouched

addItem(product, qty) ==
  /\ \A k \in 1..Len(items) : items[k].qty + Max(1, normalizeQty(qty)) <= MaxQty
  /\ Len(AddItemResult(items, product, qty)) <= MaxLines
  /\ items' = AddItemResult(items, product, qty)
  /\ lastOp' = [op |-> "addItem", slug |-> Null, before |-> items]
  /\ UNCHANGED notCartVars

inc(slug) ==
  /\ \A k \in 1..Len(items) : items[k].qty < MaxQty
  /\ items' = IncResult(items, slug)
  /\ lastOp' = [op |-> "inc", slug |-> slug, before |-> items]
  /\ UNCHANGED notCartVars

dec(slug) ==
  /\ items' = DecResult(items, slug)
  /\ lastOp' = [op |-> "dec", slug |-> slug, before |-> items]
  /\ UNCHANGED notCartVars

removeItem(slug) ==
  /\ items' = RemoveItemResult(items, slug)
  /\ lastOp' = [op |-> "removeItem", slug |-> slug, before |-> items]
  /\ UNCHANGED notCartVars

clear ==
  /\ items' = <<>>
  /\ lastOp' = [op |-> "clear", slug |-> Null, before |-> <<>>]
  /\ UNCHANGED notCartVars

CartNext ==
  \/ \E product \in ProductInputs, qty \in QtyInputs : addItem(product, qty)
  \/ \E slug \in SlugInputs : inc(slug)
  \/ \E slug \in SlugInputs : dec(slug)
  \/ \E slug \in SlugInputs : removeItem(slug)
  \/ clear

SpecCart == CartInit /\ [][CartNext]_vars

(* ------------------------------------------------------------------ *)
(* Claims about the cart store                                          *)
(* ------------------------------------------------------------------ *)

\* C10: after any sequence of addItem, inc, dec, removeItem and clear from the
\* empty cart, every line has qty >= 1 and, when its stock is known, qty <= stock.
C10_QtyWithinKnownStock ==
  \A k \in 1..Len(items) :
    /\ items[k].qty >= 1
    /\ (items[k].stock # NoNum => items[k].qty <= items[k].stock)

\* what the claim says dec(slug) leaves of a cart: the lines of another slug as
\* they were, the lines of that slug with quantity above 1 with one less, the
\* lines of that slug with quantity 1 gone
ClaimDecResult(before, slug) ==
  LET f[k \in 0..Len(before)] ==
        IF k = 0 THEN <<>>
        ELSE IF before[k].slug # slug THEN Append(f[k - 1], before[k])
        ELSE IF before[k].qty > 1
          THEN Append(f[k - 1], [before[k] EXCEPT !.qty = before[k].qty - 1])
        ELSE f[k - 1]
  IN  f[Len(before)]

\* C11: dec(slug) removes a line of that slug whose quantity is 1 and leaves
\* quantity q - 1 on a line whose quantity q is above 1, and no reachable cart
\* holds a line with quantity 0 or a negative quantity.
C11_DecRemovesAtOne ==
  /\ \A k \in 1..Len(items) : items[k].qty >= 1
  /\ lastOp.op = "dec" => items = ClaimDecResult(lastOp.before, lastOp.slug)

\* C11 witness: dec has just removed a line that had quantity 1 and has left one
\* less on another line of the cart that had the same slug
C11_Witness ==
  /\ lastOp.op = "dec"
  /\ \E k \in 1..Len(lastOp.before) :
       lastOp.before[k].slug = lastOp.slug /\ lastOp.before[k].qty = 1
  /\ \E k \in 1..Len(lastOp.before) :
       lastOp.before[k].slug = lastOp.slug /\ lastOp.before[k].qty > 1
  /\ Len(items) = Len(lastOp.before) - 1

(* ------------------------------------------------------------------ *)
(* totalPrice of the cart store                                         *)
(* ------------------------------------------------------------------ *)

\* Math.round(n / d) for d > 0: floor(n / d + 1/2)
MathRoundRatio(n, d) == (2 * n + d) \div (2 * d)

\* Number(i.off) || 0: a missing discount counts as 0
OffNumber(off) == IF off = NoNum THEN 0 ELSE off

\* finalPrice of a line: Math.round(price * (1 - off / 100)) when off > 0,
\* else price
FinalPrice(i) ==
  LET price  == i.price
      off    == OffNumber(i.off)
      hasOff == off > 0
  IN  IF hasOff THEN MathRoundRatio(price * (100 - off), 100) ELSE price

\* totalPrice with the rounding applied to the line total instead of the unit
totalPriceRoundingLineTotal(state) ==
  LET acc[k \in 0..Len(state)] ==
        IF k = 0 THEN 0
        ELSE acc[k - 1] +
             (IF OffNumber(state[k].off) > 0
              THEN MathRoundRatio(state[k].price * (100 - OffNumber(state[k].off))
                                    * normalizeQty(state[k].qty), 100)
              ELSE state[k].price * normalizeQty(state[k].qty))
  IN  acc[Len(state)]

\* totalPrice: items.reduce((acc, i) => acc + finalPrice * qty, 0)
totalPrice(state) ==
  LET acc[k \in 0..Len(state)] ==
        IF k = 0 THEN 0
        ELSE acc[k - 1] + FinalPrice(state[k]) * normalizeQty(state[k].qty)
  IN  acc[Len(state)]

\* the prices and discount percents of the products in the cart
PriceInputs == {0, 5, 100}
OffInputs == {NoNum, 0, 10, 50}
PricedLines ==
  [ slug : {"a"}, qty : 1..MaxQty, price : PriceInputs, off : OffInputs ]
PricedCarts ==
  {<<>>} \cup {<<a>> : a \in PricedLines} \cup {<<a, b>> : a, b \in PricedLines}

\* a cart of priced lines, as the store holds it when totalPrice is called
TotalInit ==
  /\ items \in PricedCarts
  /\ lastOp = NoOp
  /\ products = [d \in ProductDocs |-> NoNum]
  /\ PrefEmpty
  /\ BackendEmpty
  /\ PageUntouched /\ MailUntouched /\ AccessUntouched

\* a call of totalPrice(): the store is read, the result is returned
TotalPriceCall ==
  /\ lastOp' = [op |-> "totalPrice", slug |-> Null, before |-> <<>>,
                result |-> totalPrice(items)]
  /\ UNCHANGED items
  /\ UNCHANGED notCartVars

TotalNext == TotalPriceCall

SpecTotal == TotalInit /\ [][TotalNext]_vars

\* the unit price of the claim, as an exact fraction rounded half up: the price
\* when the discount is not above 0, else price x (100 - off) / 100 rounded
ClaimUnit(price, off) ==
  IF off = NoNum \/ off <= 0 THEN price
  ELSE CHOOSE u \in 0..price : 200 * u - 100 <= 2 * price * (100 - off)
                              /\ 2 * price * (100 - off) < 200 * u + 100

\* the sum of unit x quantity over the lines
ClaimTotal(state) ==
  LET f[k \in 0..Len(state)] ==
        IF k = 0 THEN 0
        ELSE f[k - 1] + ClaimUnit(state[k].price, state[k].off) * state[k].qty
  IN  f[Len(state)]

\* C12: totalPrice() is the sum over the cart lines of unit x quantity, where
\* unit is the price reduced by the discount percent and rounded when the
\* discount is above 0 and the price otherwise; the rounding is on the unit,
\* before the multiplication.
C12_TotalPriceRoundsPerUnit ==
  lastOp.op = "totalPrice" => lastOp.result = ClaimTotal(items)

\* C12 witness: price 100, off 10, quantity 2 gives 180, next to a line whose
\* discounted unit price 4.5 is rounded to 5 before it is multiplied by 2
C12_Witness ==
  /\ lastOp.op = "totalPrice"
  /\ items = << [slug |-> "a", qty |-> 2, price |-> 100, off |-> 10],
                [slug |-> "a", qty |-> 2, price |-> 5, off |-> 10] >>
  /\ lastOp.result = 190

(* ------------------------------------------------------------------ *)
(* migrate of the persisted cart                                        *)
(* ------------------------------------------------------------------ *)

\* it?.qty ?? 1
QtyOrOne(qty) == IF qty = NoNum THEN 1 ELSE qty

\* the line migrate makes of a stored line: normalizeCartItem, the stock taken
\* from the stored number (max(0, trunc)) or else parsed by pickStockOrNull, the
\* quantity clamped to that stock and raised to at least 1
MigrateLine(it) ==
  LET normalized == normalizeCartItem(it, Max(1, normalizeQty(QtyOrOne(it.qty))))
      stock == IF it.stock # NoNum /\ ~it.stockIsString
               THEN Max(0, it.stock)
               ELSE normalized.stock
      qty   == Max(1, clampQty(normalized.qty, stock))
  IN  [it EXCEPT !.documentId = normalized.documentId,
                 !.slug = normalized.slug,
                 !.stock = stock,
                 !.qty = qty,
                 !.stockIsString = FALSE]

\* migrate without the filter that drops the lines whose stock is 0
MigrateResultKeepAll(stored) ==
  [k \in 1..Len(stored) |-> MigrateLine(stored[k])]

\* migrate: every stored line re-normalized, the lines with stock 0 dropped
MigrateResult(stored) ==
  LET fixed == [k \in 1..Len(stored) |-> MigrateLine(stored[k])]
      keep(it) == ~(it.stock # NoNum /\ it.stock <= 0)
  IN  SelectSeq(fixed, keep)

\* the lines a persisted cart may hold: written by any version of the store
StoredIdentities ==
  { [documentId |-> "d1", slug |-> "a", id |-> 1],
    [documentId |-> Null, slug |-> "b", id |-> 1],
    [documentId |-> Null, slug |-> Null, id |-> 0] }
StoredStocks ==
  { [stock |-> NoNum, stockIsString |-> FALSE],
    [stock |-> 2, stockIsString |-> TRUE] } \cup
  { [stock |-> n, stockIsString |-> FALSE] : n \in {-3} \cup (0..MaxStock) }
StoredQtys == {NoNum, NaN, 0, 1, MaxQty + 1}
StoredLines ==
  { [ documentId |-> i.documentId, slug |-> i.slug, id |-> i.id,
      stock |-> st.stock, stockIsString |-> st.stockIsString, qty |-> q ] :
    i \in StoredIdentities, st \in StoredStocks, q \in StoredQtys }
StoredCarts ==
  {<<>>} \cup {<<a>> : a \in StoredLines} \cup {<<a, b>> : a, b \in StoredLines}

\* the persisted state as read from storage, before the store exposes it
MigrateInit ==
  /\ items \in StoredCarts
  /\ lastOp = NoOp
  /\ products = [d \in ProductDocs |-> NoNum]
  /\ PrefEmpty
  /\ BackendEmpty
  /\ PageUntouched /\ MailUntouched /\ AccessUntouched

\* persist's migrate runs once on the stored state
Migrate ==
  /\ lastOp.op = "none"
  /\ items' = MigrateResult(items)
  /\ lastOp' = [op |-> "migrate", slug |-> Null, before |-> items]
  /\ UNCHANGED notCartVars

MigrateNext == Migrate

SpecMigrate == MigrateInit /\ [][MigrateNext]_vars

\* the stock the claim takes as known for a stored line: none when the line
\* stores none, else the stored amount with a negative amount counted as 0
ClaimKnownStock(it) ==
  IF it.stock = NoNum THEN NoNum
  ELSE IF it.stock < 0 THEN 0 ELSE it.stock

\* the stored lines the claim keeps: unknown stock or positive stock
ClaimKept(stored) ==
  {k \in 1..Len(stored) :
     ClaimKnownStock(stored[k]) = NoNum \/ ClaimKnownStock(stored[k]) > 0}

\* C13: after migrate every line has quantity at least 1 and, when its stock is
\* known, no more than that stock; no line with known stock 0 remains, and the
\* stored lines with unknown or positive stock are all kept, in their order and
\* with their stock.
C13_MigrateClampsAndDrops ==
  lastOp.op = "migrate" =>
    /\ \A k \in 1..Len(items) :
         /\ items[k].qty >= 1
         /\ items[k].stock # NoNum => items[k].qty <= items[k].stock
         /\ items[k].stock # 0
    /\ Len(items) = Cardinality(ClaimKept(lastOp.before))
    /\ \A k \in 1..Len(items) :
         \E j \in ClaimKept(lastOp.before) :
           /\ Cardinality({i \in ClaimKept(lastOp.before) : i <= j}) = k
           /\ items[k].stock = ClaimKnownStock(lastOp.before[j])
           /\ items[k].id = lastOp.before[j].id

\* C13 witness: of two stored lines the one with stock 0 was dropped and the
\* other, stored with more than its stock, was clamped to it
C13_Witness ==
  /\ lastOp.op = "migrate"
  /\ Len(lastOp.before) = 2
  /\ lastOp.before[1].stock = 0
  /\ lastOp.before[2].stock = MaxStock /\ lastOp.before[2].qty > MaxStock
  /\ Len(items) = 1
  /\ items[1].qty = MaxStock

(* ================================================================== *)
(* Order creation (src/frontend/src/app/api/invoices/my/route.ts,       *)
(* section src/app/api/orders/create/route.ts)                          *)
(* ================================================================== *)

\* safeUUID(): a fresh correlation reference for the n-th order
safeUUID(n) == <<"uuid-1", "uuid-2", "uuid-3", "uuid-4">>[n]

\* makeOrderNumber(numericId): "AMG-" followed by the id padded to four digits
makeOrderNumber(numericId) == <<"AMG-0001", "AMG-0002", "AMG-0003", "AMG-0004">>[numericId]

\* the status the backend gives an order created without an orderStatus field
DefaultOrderStatus == "pending"

\* the order record the backend stores for a create payload: the payload is
\* {...incomingData, name, email, phone, total, items, shippingAddress,
\*  mpExternalReference, user}, so every other field of the body is stored as sent
CreatedOrder(body, n, orderNumberSet) ==
  [ orderStatus         |-> IF body.orderStatus # Null THEN body.orderStatus
                            ELSE DefaultOrderStatus,
    totalHalves         |-> body.totalHalves,
    items               |-> body.items,
    mpExternalReference |-> IF body.mpExternalReference # Null
                            THEN body.mpExternalReference ELSE safeUUID(n),
    orderNumber         |-> IF orderNumberSet THEN makeOrderNumber(n) ELSE Null,
    mpPaymentId         |-> body.mpPaymentId,
    mpStatus            |-> Null,
    mpStatusDetail      |-> Null,
    mpMerchantOrderId   |-> Null,
    \* history of the order, not read by any handler:
    hookWrote           |-> FALSE,   \* a webhook write reached the record
    nonApproved         |-> FALSE,   \* a webhook wrote a status other than paid
    intoPaid            |-> 0,       \* writes that changed the stored status to paid
    emails              |-> 0,       \* confirmation-email requests made for it
    genOk               |-> <<>> ]   \* the first 200 answer of invoices/generate

\* the server-side validation of the create body (contact, shipping, items, total)
CreateBodyValid(body) ==
  /\ body.contactOk
  /\ body.items # <<>>
  /\ body.totalHalves # NaN
  /\ body.totalHalves > 0

(* ================================================================== *)
(* Preference creation                                                  *)
(* (src/frontend/src/app/api/mp/create-preference/route.ts)             *)
(* ================================================================== *)

\* Math.round of a number given in halves (x = h/2): floor(x + 0.5)
MathRoundHalves(h) == (h + 1) \div 2

\* pickStock: null stays null (not validated), a number is taken as is
pickStock(raw) == raw

\* the productDocumentIds validateStockOrThrow collects: lines with a document id
\* and a finite quantity > 0
NeedDocs(its) ==
  { its[k].productDocumentId : k \in
      {j \in 1..Len(its) : /\ its[j].productDocumentId # Null
                           /\ its[j].qty # NaN
                           /\ its[j].qty > 0} }

RECURSIVE SumQty(_, _)
\* need.get(doc).requested: the sum of the quantities of the lines of one product
SumQty(its, doc) ==
  IF its = <<>> THEN 0
  ELSE (IF /\ Head(its).productDocumentId = doc
           /\ Head(its).qty # NaN
           /\ Head(its).qty > 0
        THEN Head(its).qty ELSE 0) + SumQty(Tail(its), doc)

\* StockProblems with the missing-product branch dropped: a product the query
\* does not return is skipped instead of reported with available 0
StockProblemsSkipMissing(its, prods) ==
  { [ productDocumentId |-> doc,
      requested         |-> SumQty(its, doc),
      available         |-> pickStock(prods[doc]) ] :
    doc \in { d \in NeedDocs(its) :
                /\ prods[d] # Absent
                /\ pickStock(prods[d]) # NoNum
                /\ pickStock(prods[d]) < SumQty(its, d) } }

\* validateStockOrThrow's problems list: a product that is missing counts as
\* available 0, a product with null stock is skipped, otherwise stock < requested
StockProblems(its, prods) ==
  { [ productDocumentId |-> doc,
      requested         |-> SumQty(its, doc),
      available         |-> IF prods[doc] = Absent THEN 0 ELSE pickStock(prods[doc]) ] :
    doc \in { d \in NeedDocs(its) :
                \/ prods[d] = Absent
                \/ /\ pickStock(prods[d]) # NoNum
                   /\ pickStock(prods[d]) < SumQty(its, d) } }

\* normalizedItems: the lines that pass the sanity filter (quantity is forced to
\* at least 1, so only the unit price decides)
NormalizedItems(its) == SelectSeq(its, LAMBDA it : it.unit_price > 0)

\* chargeItems: one line, quantity 1, unit_price Math.round(totalNumber)
ChargeItems(order) ==
  << [ quantity |-> 1, unit_price |-> MathRoundHalves(order.totalHalves) ] >>

\* the response of POST /api/mp/create-preference and the preference it sends,
\* for a request body, the server configuration and the outcomes of its fetches
PreferencePost(body, env, net) ==
  IF ~env.mpAccessToken THEN [status |-> 500, problems |-> {}, sent |-> <<>>]
  ELSE IF ~env.siteUrlOk THEN [status |-> 500, problems |-> {}, sent |-> <<>>]
  ELSE IF ~env.strapiToken THEN [status |-> 500, problems |-> {}, sent |-> <<>>]
  ELSE IF body.orderId = 0 THEN [status |-> 400, problems |-> {}, sent |-> <<>>]
  ELSE IF ~net.orderFetchOk \/ body.orderId > Len(orders)
       THEN [status |-> 404, problems |-> {}, sent |-> <<>>]
  ELSE LET order == orders[body.orderId]
           mpExternalReference ==
             IF order.mpExternalReference # Null THEN order.mpExternalReference
             ELSE body.mpExternalReference
       IN  IF mpExternalReference = Null
             THEN [status |-> 400, problems |-> {}, sent |-> <<>>]
           ELSE IF order.items = <<>>
             THEN [status |-> 400, problems |-> {}, sent |-> <<>>]
           ELSE IF order.totalHalves = NaN \/ order.totalHalves <= 0
             THEN [status |-> 400, problems |-> {}, sent |-> <<>>]
           ELSE IF NeedDocs(order.items) # {} /\ ~net.productsFetchOk
             THEN [status |-> 500, problems |-> {}, sent |-> <<>>]
           ELSE IF StockProblems(order.items, products) # {}
             THEN [status |-> 409,
                   problems |-> StockProblems(order.items, products),
                   sent |-> <<>>]
           ELSE IF NormalizedItems(order.items) = <<>>
             THEN [status |-> 400, problems |-> {}, sent |-> <<>>]
           ELSE [status |-> IF net.mpOk THEN 200 ELSE 502,
                 problems |-> {},
                 sent |-> << [ orderId |-> body.orderId,
                               items |-> ChargeItems(order),
                               external_reference |-> mpExternalReference,
                               bodyTotal |-> body.total ] >>]

\* inputs of the preference specification
ItemInputs ==
  { [productDocumentId |-> "p1", qty |-> 1, unit_price |-> 1],
    [productDocumentId |-> "p1", qty |-> 2, unit_price |-> 1],
    [productDocumentId |-> "p2", qty |-> 1, unit_price |-> 1],
    [productDocumentId |-> Null, qty |-> 2, unit_price |-> 1] }
ItemListInputs ==
  {<<a>> : a \in ItemInputs} \cup {<<a, b>> : a, b \in ItemInputs} \cup
  { << [productDocumentId |-> "p2", qty |-> 0, unit_price |-> 1] >>,
    << [productDocumentId |-> "p1", qty |-> 1, unit_price |-> 0] >> }
\* totals in halves: 0, 0.5, 1, 1.5
TotalInputs == {0, 1, 2, 3}
PrefCreateBodies ==
  [ contactOk : {TRUE}, items : ItemListInputs, totalHalves : TotalInputs,
    mpExternalReference : {Null}, orderStatus : {Null}, mpPaymentId : {Null} ]
\* total stands for the items, prices and totals a client may put in the body
PrefBodies ==
  [ orderId : {0, 1}, mpExternalReference : {"bodyref"}, total : {7, 8} ]
EnvInputs ==
  { [mpAccessToken |-> TRUE, siteUrlOk |-> TRUE, strapiToken |-> TRUE],
    [mpAccessToken |-> FALSE, siteUrlOk |-> TRUE, strapiToken |-> TRUE],
    [mpAccessToken |-> TRUE, siteUrlOk |-> FALSE, strapiToken |-> TRUE],
    [mpAccessToken |-> TRUE, siteUrlOk |-> TRUE, strapiToken |-> FALSE] }
NetInputs ==
  { [orderFetchOk |-> TRUE, productsFetchOk |-> TRUE, mpOk |-> TRUE],
    [orderFetchOk |-> FALSE, productsFetchOk |-> TRUE, mpOk |-> TRUE],
    [orderFetchOk |-> TRUE, productsFetchOk |-> FALSE, mpOk |-> TRUE],
    [orderFetchOk |-> TRUE, productsFetchOk |-> TRUE, mpOk |-> FALSE] }
StockStates == {Absent, NoNum} \cup (0..MaxStock)

\* the server was configured and the order and product reads of the call succeeded
ReadsOk(body, env, net) ==
  /\ env.mpAccessToken /\ env.siteUrlOk /\ env.strapiToken
  /\ body.orderId \in 1..Len(orders)
  /\ net.orderFetchOk /\ net.productsFetchOk

PrefInit ==
  /\ items = <<>>
  /\ products \in [ProductDocs -> StockStates]
  /\ PrefEmpty
  /\ BackendEmpty
  /\ CartUntouched /\ PageUntouched /\ MailUntouched /\ AccessUntouched

\* POST /api/orders/create for the one order of the preference specification
PrefOrdersCreate(body) ==
  /\ orders = <<>>
  /\ CreateBodyValid(body)
  /\ orders' = <<CreatedOrder(body, 1, TRUE)>>
  /\ UNCHANGED <<items, products, prefLog, prefResp>>
  /\ UNCHANGED notPrefVars

\* POST /api/mp/create-preference
CreatePreference(body, env, net) ==
  LET r == PreferencePost(body, env, net)
  IN  /\ prefResp' = [ status |-> r.status, problems |-> r.problems,
                       sent |-> (r.sent # <<>>), orderId |-> body.orderId,
                       readsOk |-> ReadsOk(body, env, net) ]
      /\ prefLog' = prefLog \cup {r.sent[k] : k \in 1..Len(r.sent)}
      /\ UNCHANGED <<items, orders, products>>
      /\ UNCHANGED notPrefVars

\* the backend stock of a product changes (a sale, a restock, an unpublish)
StockChange(doc, stock) ==
  /\ products' = [products EXCEPT ![doc] = stock]
  /\ prefResp' = NoResp
  /\ UNCHANGED <<items, orders, prefLog>>
  /\ UNCHANGED notPrefVars

PrefNext ==
  \/ \E body \in PrefCreateBodies : PrefOrdersCreate(body)
  \/ \E body \in PrefBodies, env \in EnvInputs, net \in NetInputs :
       CreatePreference(body, env, net)
  \/ \E doc \in ProductDocs, stock \in StockStates : StockChange(doc, stock)

SpecPref == PrefInit /\ [][PrefNext]_vars

(* ------------------------------------------------------------------ *)
(* Claims about preference creation                                     *)
(* ------------------------------------------------------------------ *)

\* C4: every preference sent to the payment provider carries exactly one line
\* item, with quantity 1 and a unit price equal to the total stored on the order,
\* and two preferences for the same stored order carry the same charged amount
\* whatever the request bodies held.
C4_ChargeEqualsStoredTotal ==
  /\ \A r \in prefLog :
       /\ Len(r.items) = 1
       /\ r.items[1].quantity = 1
       /\ 2 * r.items[1].unit_price = orders[r.orderId].totalHalves
  /\ \A r1, r2 \in prefLog :
       r1.orderId = r2.orderId => r1.items = r2.items

\* the quantity an order requests of one product: the sum over its lines
ClaimRequested(its, d) ==
  LET f[k \in 0..Len(its)] ==
        IF k = 0 THEN 0
        ELSE f[k - 1] + (IF its[k].productDocumentId = d /\ its[k].qty > 0
                         THEN its[k].qty ELSE 0)
  IN  f[Len(its)]

\* the stock the claim counts for a product: 0 when the backend has no such product
ClaimAvailable(prods, d) == IF prods[d] = Absent THEN 0 ELSE prods[d]

\* the products of an order whose known stock is below the requested quantity
ClaimShortfalls(its, prods) ==
  { d \in ProductDocs :
      /\ ClaimRequested(its, d) > 0
      /\ prods[d] # NoNum
      /\ ClaimAvailable(prods, d) < ClaimRequested(its, d) }

\* C5: a create-preference call for a stored order with a stock shortfall sends no
\* preference; when the server is configured and its order and product reads
\* succeed it answers 409 with exactly the products in shortfall, each with its
\* requested and available quantity; a product with null stock is never reported.
C5_StockConflictRejected ==
  (prefResp.status # 0 /\ prefResp.orderId = 1 /\ orders # <<>>) =>
    LET short == ClaimShortfalls(orders[1].items, products)
    IN  /\ short # {} => ~prefResp.sent
        /\ (short # {} /\ prefResp.readsOk) =>
             /\ prefResp.status = 409
             /\ {pr.productDocumentId : pr \in prefResp.problems} = short
        /\ \A pr \in prefResp.problems :
             /\ products[pr.productDocumentId] # NoNum
             /\ pr.requested = ClaimRequested(orders[1].items, pr.productDocumentId)
             /\ pr.available = ClaimAvailable(products, pr.productDocumentId)
        /\ prefResp.status = 409 => short # {}

\* C5 witness: a call answered 409 that reports a missing product while another
\* product of the same order has null stock and is not reported
C5_Witness ==
  /\ prefResp.status = 409
  /\ prefResp.readsOk
  /\ orders # <<>>
  /\ \E pr \in prefResp.problems : products[pr.productDocumentId] = Absent
  /\ \E d \in ProductDocs :
       /\ ClaimRequested(orders[1].items, d) > 0
       /\ products[d] = NoNum

(* ================================================================== *)
(* Webhook handler (src/frontend/src/app/api/mp/webhook/route.ts) and   *)
(* invoice generation (src/frontend/src/app/api/promotions/quote/       *)
(* route.ts, section src/app/api/invoices/generate/route.ts)            *)
(* ================================================================== *)

\* mapMpToOrderStatus with the rejected case falling through to the default
mapMpToOrderStatusNoRejected(mpStatus) ==
  CASE mpStatus = "approved"  -> "paid"
    [] mpStatus = "cancelled" -> "cancelled"
    [] OTHER                  -> "pending"

\* mapMpToOrderStatus: the switch over the provider's payment status
mapMpToOrderStatus(mpStatus) ==
  CASE mpStatus = "approved"  -> "paid"
    [] mpStatus = "rejected"  -> "failed"
    [] mpStatus = "cancelled" -> "cancelled"
    [] OTHER                  -> "pending"

\* type.includes("payment") / type.includes("merchant_order") for the topics
\* of the model
TypeIncludesPayment(type) == type \in {"payment", "payment.updated"}
TypeIncludesMerchantOrder(type) == type \in {"merchant_order", "topic_merchant_order_wh"}

\* resolvePaymentIdFromMerchantOrder: the first approved payment with an id,
\* else the first payment with an id, else null
ResolvePaymentId(payments) ==
  LET approved == {k \in 1..Len(payments) :
                     payments[k].status = "approved" /\ payments[k].id # Null}
      withId   == {k \in 1..Len(payments) : payments[k].id # Null}
      first(S) == CHOOSE k \in S : \A j \in S : k <= j
  IN  IF approved # {} THEN payments[first(approved)].id
      ELSE IF withId # {} THEN payments[first(withId)].id
      ELSE Null

\* payment.external_reference ?? payment.metadata.mpExternalReference
\*   ?? payment.metadata.external_reference
PickExternalReference(payment) ==
  IF payment.external_reference # Null THEN payment.external_reference
  ELSE payment.metadataRef

\* prevStatus = order.orderStatus || "pending"
PrevStatus(order) ==
  IF order.orderStatus = Null THEN "pending" ELSE order.orderStatus

\* becamePaid computed from the new status alone
BecamePaidIgnoringPrev(prevStatus, nextStatus) == nextStatus = "paid"

\* becamePaid true only for an order read as pending that is now failed
BecamePaidOnFailure(prevStatus, nextStatus) ==
  prevStatus = "pending" /\ nextStatus = "failed"

\* becamePaid = prevStatus !== "paid" && nextStatus === "paid"
BecamePaid(prevStatus, nextStatus) ==
  prevStatus # "paid" /\ nextStatus = "paid"

\* the webhook's response with the failed-update path answering 500
HookResponseFailingUpdate(why, becamePaid) ==
  [RespNone EXCEPT !.status = IF why = "update_failed" THEN 500 ELSE 200,
                   !.why = why, !.becamePaid = becamePaid]

\* the webhook's response: NextResponse.json({ok: true, ...}, {status: 200}) on
\* every return of the handler; why names the return taken, becamePaid is the
\* field of the final return
HookResponse(why, becamePaid) ==
  [RespNone EXCEPT !.status = 200, !.why = why, !.becamePaid = becamePaid]

\* buildInvoiceNumber: RC_<YYYYMMDD of the server clock>_<orderNumber>, with
\* "AMG-XXXX" for an order without number
buildInvoiceNumber(orderNumber, day) ==
  <<"RC", day, IF orderNumber = Null THEN "AMG-XXXX" ELSE orderNumber>>

\* the paid check of the generate handler without the rejection
IsPaidForInvoiceAlways(orderStatus) == TRUE

\* String(order.orderStatus ?? "").toLowerCase() === "paid" (the statuses of the
\* model are lower case)
IsPaidForInvoice(orderStatus) == orderStatus = "paid"

\* a search that ignores its filter: every stored order
OrdersWhateverReference(ref) == 1..Len(orders)

\* the orders whose mpExternalReference equals the reference of the payment
OrdersByReference(ref) ==
  {n \in 1..Len(orders) : orders[n].mpExternalReference = ref}

\* the invoices stored under a number
InvoicesByNumber(number) == {inv \in invoices : inv.number = number}

(* inputs of the webhook and generation steps *)

PaymentIds == {"pay1", "pay2"}
\* notification topic and id, from the query string or the body
NotificationInputs ==
  [ type : {Null, "payment", "merchant_order", "other", "throws"}, id : {Null, "pay1"} ]
\* a request whose handling throws outside the handler's inner try blocks
FatalNotification == [type |-> "throws", id |-> Null]
\* the payments list of a merchant order
MerchantOrderInputs ==
  { [ok |-> FALSE, payments |-> <<>>],
    [ok |-> TRUE, payments |-> << [id |-> Null, status |-> "approved"] >>],
    [ok |-> TRUE, payments |-> << [id |-> "pay2", status |-> "pending"],
                                  [id |-> "pay1", status |-> "approved"] >>],
    [ok |-> TRUE, payments |-> << [id |-> "pay2", status |-> "rejected"],
                                  [id |-> "pay1", status |-> "pending"] >>] }
\* the correlation references a payment may carry
RefInputs == {Null, "ref1"} \cup {safeUUID(n) : n \in 1..MaxOrders}
\* the payment the provider returns: status, detail and merchant order
PaymentStatusInputs ==
  { [status |-> "approved",   status_detail |-> "accredited", orderId |-> "mo1"],
    [status |-> "rejected",   status_detail |-> "cc_rejected", orderId |-> Null],
    [status |-> "cancelled",  status_detail |-> Null, orderId |-> Null],
    [status |-> "in_process", status_detail |-> Null, orderId |-> "mo1"],
    [status |-> Null,         status_detail |-> Null, orderId |-> Null] }
\* where the payment carries its reference: external_reference or metadata
PaymentRefInputs ==
  {[external_reference |-> r, metadataRef |-> Null] : r \in RefInputs} \cup
  {[external_reference |-> Null, metadataRef |-> "ref1"]}
\* the outcome of the payment fetch: a failure, or a payment
PaymentInputs ==
  { [ok |-> FALSE, st |-> CHOOSE st \in PaymentStatusInputs : st.status = Null,
      rf |-> [external_reference |-> Null, metadataRef |-> Null]] } \cup
  { [ok |-> TRUE, st |-> st, rf |-> rf] :
      st \in PaymentStatusInputs, rf \in PaymentRefInputs }
\* MP_ACCESS_TOKEN and STRAPI_TOKEN / STRAPI_API_TOKEN of the server
HookEnvInputs ==
  { [mpAccessToken |-> TRUE, strapiToken |-> TRUE],
    [mpAccessToken |-> FALSE, strapiToken |-> TRUE],
    [mpAccessToken |-> TRUE, strapiToken |-> FALSE] }
\* the bodies of POST /api/orders/create: a checkout body, and bodies that also
\* carry a status, a payment id or a correlation reference of the client's choice
HookCreateBodies ==
  { [ contactOk |-> TRUE,
      items |-> << [productDocumentId |-> "p1", qty |-> 1, unit_price |-> 1] >>,
      totalHalves |-> 2, mpExternalReference |-> r,
      orderStatus |-> s[1], mpPaymentId |-> s[2] ] :
    r \in {Null, "ref1"}, s \in {<<Null, Null>>, <<"paid", "pay1">>} }

(* steps of the handlers: one step per awaited call on the backend *)

\* the handler returns: its response is recorded, its locals are gone
Respond(p, r) ==
  /\ pc' = [pc EXCEPT ![p] = "idle"]
  /\ loc' = [loc EXCEPT ![p] = LocIdle]
  /\ lastResp' = [r EXCEPT !.to = p]

\* a response of the generate handler
GenResponse(status, why, statusRead) ==
  [RespNone EXCEPT !.status = status, !.why = why, !.statusRead = statusRead]

\* POST /api/orders/create: validation, then the order is stored; the second
\* request that sets orderNumber may fail and leaves the order without number
OrdersCreate(body, orderNumberSet, limit) ==
  /\ Len(orders) < limit
  /\ CreateBodyValid(body)
  /\ orders' = Append(orders, CreatedOrder(body, Len(orders) + 1, orderNumberSet))
  /\ UNCHANGED <<invoices, files, today, pc, loc, lastResp, deliveries, genCalls>>
  /\ UNCHANGED notHookVars

\* the rest of the webhook handler after the invoice generation call: the email
\* step when the order became paid, else the final return; gen holds the body of
\* a 200 answer of the generate endpoint, if any
AfterInvoice(h, gen) ==
  IF BecamePaid(loc[h].prevStatus, loc[h].nextStatus)
  THEN /\ pc' = [pc EXCEPT ![h] = "email"]
       /\ loc' = [loc EXCEPT ![h] =
                    [LocIdle EXCEPT !.order = loc[h].order,
                                    !.prevStatus = loc[h].prevStatus,
                                    !.nextStatus = loc[h].nextStatus,
                                    !.gen = gen]]
       /\ UNCHANGED lastResp
  ELSE Respond(h, HookResponse("done", FALSE))

\* the generate handler returns r: to its caller when called directly, into
\* tryGenerateInvoice of the webhook handler otherwise
GenReturn(p, r) ==
  IF p \in Gens THEN Respond(p, r)
  ELSE AfterInvoice(p, IF r.status = 200 THEN <<r>> ELSE <<>>)

\* the payment fetch of the webhook handler and the checks that follow it
FetchPayment(h, paymentId, env) ==
  \E pay \in PaymentInputs :
    LET st == pay.st
        rf == pay.rf
    IN
    IF ~pay.ok THEN Respond(h, HookResponse("payment_fetch_failed", FALSE))
    ELSE IF PickExternalReference(rf) = Null
      THEN Respond(h, HookResponse("missing_external_reference", FALSE))
    ELSE IF ~env.strapiToken THEN Respond(h, HookResponse("no_strapi_token", FALSE))
    ELSE /\ pc' = [pc EXCEPT ![h] = "find"]
         /\ loc' = [loc EXCEPT ![h] =
                      [LocIdle EXCEPT !.paymentId = paymentId,
                                      !.mpStatus = st.status,
                                      !.mpStatusDetail = st.status_detail,
                                      !.mpMerchantOrderId = st.orderId,
                                      !.mpExternalReference = PickExternalReference(rf)]]
         /\ UNCHANGED lastResp

\* webhook POST/GET, from the notification to the payment: the reads of the
\* payment provider do not touch the backend and are taken in one step
H_Receive(h) ==
  /\ pc[h] = "idle"
  /\ deliveries < MaxDeliveries
  /\ deliveries' = deliveries + 1
  /\ \E n \in NotificationInputs :
       IF n = FatalNotification THEN Respond(h, HookResponse("fatal", FALSE))
       ELSE IF n.id = Null THEN Respond(h, HookResponse("no_id", FALSE))
       ELSE \E env \in HookEnvInputs :
         IF ~env.mpAccessToken THEN Respond(h, HookResponse("no_mp_token", FALSE))
         ELSE IF n.type = Null \/ TypeIncludesPayment(n.type)
           THEN FetchPayment(h, n.id, env)
         ELSE IF TypeIncludesMerchantOrder(n.type)
           THEN \E mo \in MerchantOrderInputs :
                  IF ~mo.ok THEN Respond(h, HookResponse("merchant_order_failed", FALSE))
                  ELSE IF ResolvePaymentId(mo.payments) = Null
                    THEN Respond(h, HookResponse("no_payment_yet", FALSE))
                  ELSE FetchPayment(h, ResolvePaymentId(mo.payments), env)
         ELSE Respond(h, HookResponse("unsupported_topic", FALSE))
  /\ UNCHANGED <<orders, invoices, files, today, genCalls>>
  /\ UNCHANGED notHookVars

\* a lookup that, finding no order for the reference, records the payment on
\* the order created last before answering that there is none
H_FindFallingBackToLastOrder(h) ==
  /\ pc[h] = "find"
  /\ IF OrdersByReference(loc[h].mpExternalReference) = {}
     THEN /\ Respond(h, HookResponse("order_not_found", FALSE))
          /\ orders' = [n \in 1..Len(orders) |->
                          IF n = Len(orders)
                          THEN [orders[n] EXCEPT !.mpPaymentId = loc[h].paymentId,
                                                 !.mpStatus = loc[h].mpStatus]
                          ELSE orders[n]]
     ELSE \E o \in OrdersByReference(loc[h].mpExternalReference) :
            /\ pc' = [pc EXCEPT ![h] = "update"]
            /\ loc' = [loc EXCEPT ![h] =
                         [loc[h] EXCEPT !.order = o,
                                        !.prevStatus = PrevStatus(orders[o]),
                                        !.nextStatus = mapMpToOrderStatus(loc[h].mpStatus)]]
            /\ UNCHANGED <<lastResp, orders>>
  /\ UNCHANGED <<invoices, files, today, deliveries, genCalls>>
  /\ UNCHANGED notHookVars

\* findOrderByMpExternalReference, then prevStatus and nextStatus
H_Find(h) ==
  /\ pc[h] = "find"
  /\ \E ok \in BOOLEAN :
       IF ~ok THEN Respond(h, HookResponse("order_search_failed", FALSE))
       ELSE IF OrdersByReference(loc[h].mpExternalReference) = {}
         THEN Respond(h, HookResponse("order_not_found", FALSE))
       ELSE \E o \in OrdersByReference(loc[h].mpExternalReference) :
              /\ pc' = [pc EXCEPT ![h] = "update"]
              /\ loc' = [loc EXCEPT ![h] =
                           [loc[h] EXCEPT !.order = o,
                                          !.prevStatus = PrevStatus(orders[o]),
                                          !.nextStatus = mapMpToOrderStatus(loc[h].mpStatus)]]
              /\ UNCHANGED lastResp
  /\ UNCHANGED <<orders, invoices, files, today, deliveries, genCalls>>
  /\ UNCHANGED notHookVars

\* the order record after a PUT that leaves a shipped or delivered order alone
UpdatedOrderKeepingShipped(order, l) ==
  IF order.orderStatus \in {"shipped", "delivered"} THEN order
  ELSE [order EXCEPT !.orderStatus = l.nextStatus,
                     !.mpPaymentId = l.paymentId,
                     !.mpStatus = l.mpStatus,
                     !.mpStatusDetail = l.mpStatusDetail,
                     !.mpMerchantOrderId = l.mpMerchantOrderId,
                     !.mpExternalReference = l.mpExternalReference,
                     !.hookWrote = TRUE]

\* the order record after the webhook's PUT
UpdatedOrder(order, l) ==
  [order EXCEPT !.orderStatus = l.nextStatus,
                !.mpPaymentId = l.paymentId,
                !.mpStatus = l.mpStatus,
                !.mpStatusDetail = l.mpStatusDetail,
                !.mpMerchantOrderId = l.mpMerchantOrderId,
                !.mpExternalReference = l.mpExternalReference,
                !.hookWrote = TRUE,
                !.nonApproved = order.nonApproved \/ l.nextStatus # "paid",
                !.intoPaid = order.intoPaid +
                   (IF order.orderStatus # "paid" /\ l.nextStatus = "paid" THEN 1 ELSE 0)]

\* a handler that logs a failed PUT and goes on to the invoice and the email
H_UpdateGoingOnAfterFailure(h) ==
  /\ pc[h] = "update"
  /\ \E ok \in BOOLEAN :
       /\ orders' = IF ok THEN [orders EXCEPT ![loc[h].order] = UpdatedOrder(@, loc[h])]
                    ELSE orders
       /\ IF loc[h].nextStatus = "paid"
          THEN /\ pc' = [pc EXCEPT ![h] = "g_fetch"]
               /\ loc' = [loc EXCEPT ![h] =
                            [LocIdle EXCEPT !.order = loc[h].order,
                                            !.prevStatus = loc[h].prevStatus,
                                            !.nextStatus = loc[h].nextStatus,
                                            !.orderId = loc[h].order,
                                            !.prior = orders[loc[h].order].genOk]]
               /\ UNCHANGED lastResp
          ELSE AfterInvoice(h, <<>>)
  /\ UNCHANGED <<invoices, files, today, deliveries, genCalls>>
  /\ UNCHANGED notHookVars

\* updateOrderInStrapi, then the call of the generate endpoint when the new
\* status is paid (a call that does not reach the endpoint is skipped over)
H_Update(h) ==
  /\ pc[h] = "update"
  /\ \E ok \in BOOLEAN, reached \in BOOLEAN :
       IF ~ok THEN /\ Respond(h, HookResponse("update_failed", FALSE))
                   /\ UNCHANGED orders
       ELSE /\ orders' = [orders EXCEPT ![loc[h].order] = UpdatedOrder(@, loc[h])]
            /\ IF loc[h].nextStatus = "paid" /\ reached
               THEN /\ pc' = [pc EXCEPT ![h] = "g_fetch"]
                    /\ loc' = [loc EXCEPT ![h] =
                                 [LocIdle EXCEPT !.order = loc[h].order,
                                                 !.prevStatus = loc[h].prevStatus,
                                                 !.nextStatus = loc[h].nextStatus,
                                                 !.orderId = loc[h].order,
                                                 !.prior = orders[loc[h].order].genOk]]
                    /\ UNCHANGED lastResp
               ELSE AfterInvoice(h, <<>>)
  /\ UNCHANGED <<invoices, files, today, deliveries, genCalls>>
  /\ UNCHANGED notHookVars

\* sendOrderConfirmationEmail: the request to the email endpoint, whose failure
\* is logged; then the final return
H_Email(h) ==
  /\ pc[h] = "email"
  /\ orders' = [orders EXCEPT ![loc[h].order].emails = @ + 1]
  /\ \E ok \in BOOLEAN :
       Respond(h, HookResponse(IF ok THEN "done" ELSE "done_email_failed", TRUE))
  /\ UNCHANGED <<invoices, files, today, deliveries, genCalls>>
  /\ UNCHANGED notHookVars

\* the generate handler answers 200 with an invoice number and a PDF; the first
\* such answer for an order is kept in the order's history
GenReturnOk(p, alreadyExists, pdfUrl) ==
  LET o == loc[p].orderId
      r == [GenResponse(200, "ok", loc[p].statusRead) EXCEPT
              !.alreadyExists = alreadyExists,
              !.invoiceNumber = loc[p].invoiceNumber,
              !.pdfUrl = pdfUrl,
              !.prior = loc[p].prior]
  IN  /\ GenReturn(p, r)
      /\ orders' = [orders EXCEPT ![o].genOk =
                      IF @ = <<>>
                      THEN << [invoiceNumber |-> r.invoiceNumber, pdfUrl |-> pdfUrl] >>
                      ELSE @]

\* POST /api/invoices/generate called directly: token, body and orderId checks
G_Start(g) ==
  /\ pc[g] = "idle"
  /\ genCalls < MaxGenCalls
  /\ genCalls' = genCalls + 1
  /\ \E tokenOk \in BOOLEAN, orderId \in 0..MaxOrders :
       IF ~tokenOk THEN Respond(g, GenResponse(500, "no_token", Null))
       ELSE IF orderId = 0 THEN Respond(g, GenResponse(400, "no_order_id", Null))
       ELSE /\ pc' = [pc EXCEPT ![g] = "g_fetch"]
            /\ loc' = [loc EXCEPT ![g] =
                         [LocIdle EXCEPT !.orderId = orderId,
                                         !.prior = IF orderId <= Len(orders)
                                                   THEN orders[orderId].genOk
                                                   ELSE <<>>]]
            /\ UNCHANGED lastResp
  /\ UNCHANGED <<orders, invoices, files, today, deliveries>>
  /\ UNCHANGED notHookVars

\* fetchOrderByDocumentId, the paid check and buildInvoiceNumber
G_FetchOrder(p) ==
  /\ pc[p] = "g_fetch"
  /\ \E ok \in BOOLEAN :
       IF ~ok THEN GenReturn(p, GenResponse(500, "order_fetch_failed", Null))
       ELSE IF loc[p].orderId > Len(orders)
         THEN GenReturn(p, GenResponse(404, "order_not_found", Null))
       ELSE IF ~IsPaidForInvoice(orders[loc[p].orderId].orderStatus)
         THEN GenReturn(p, GenResponse(409, "not_paid",
                                       orders[loc[p].orderId].orderStatus))
       ELSE /\ pc' = [pc EXCEPT ![p] = "g_find"]
            /\ loc' = [loc EXCEPT ![p] =
                         [loc[p] EXCEPT
                            !.statusRead = orders[loc[p].orderId].orderStatus,
                            !.invoiceNumber =
                               buildInvoiceNumber(orders[loc[p].orderId].orderNumber,
                                                  today)]]
            /\ UNCHANGED lastResp
  /\ UNCHANGED <<orders, invoices, files, today, deliveries, genCalls>>
  /\ UNCHANGED notHookVars

\* findInvoiceByNumber: an existing invoice is returned (alreadyExists); else
\* the PDF is rendered
G_Find(p) ==
  /\ pc[p] = "g_find"
  /\ \E ok \in BOOLEAN, renderOk \in BOOLEAN :
       IF ~ok
         THEN /\ GenReturn(p, GenResponse(400, "find_invoice_failed", loc[p].statusRead))
              /\ UNCHANGED orders
       ELSE IF InvoicesByNumber(loc[p].invoiceNumber) # {}
         THEN \E existing \in InvoicesByNumber(loc[p].invoiceNumber) :
                GenReturnOk(p, TRUE, existing.pdf)
       ELSE IF ~renderOk
         THEN /\ GenReturn(p, GenResponse(500, "render_failed", loc[p].statusRead))
              /\ UNCHANGED orders
       ELSE /\ pc' = [pc EXCEPT ![p] = "g_upload"]
            /\ UNCHANGED <<loc, lastResp, orders>>
  /\ UNCHANGED <<invoices, files, today, deliveries, genCalls>>
  /\ UNCHANGED notHookVars

\* the upload of the PDF to the backend
G_Upload(p) ==
  /\ pc[p] = "g_upload"
  /\ \E ok \in BOOLEAN :
       IF ~ok
         THEN /\ GenReturn(p, GenResponse(500, "upload_failed", loc[p].statusRead))
              /\ UNCHANGED files
       ELSE /\ files' = files \cup
                  { [ id |-> Cardinality(files) + 1,
                      name |-> loc[p].invoiceNumber,
                      forOrder |-> loc[p].orderId,
                      statusRead |-> loc[p].statusRead ] }
            /\ pc' = [pc EXCEPT ![p] = "g_create"]
            /\ loc' = [loc EXCEPT ![p].fileId = Cardinality(files) + 1]
            /\ UNCHANGED lastResp
  /\ UNCHANGED <<orders, invoices, today, deliveries, genCalls>>
  /\ UNCHANGED notHookVars

\* createInvoiceMinimal: the invoice record with its number and its PDF
G_Create(p) ==
  /\ pc[p] = "g_create"
  /\ \E ok \in BOOLEAN :
       IF ~ok
         THEN /\ GenReturn(p, GenResponse(500, "create_invoice_failed", loc[p].statusRead))
              /\ UNCHANGED invoices
       ELSE /\ invoices' = invoices \cup
                  { [ id |-> Cardinality(invoices) + 1,
                      number |-> loc[p].invoiceNumber,
                      pdf |-> loc[p].fileId,
                      forOrder |-> loc[p].orderId,
                      statusRead |-> loc[p].statusRead ] }
            /\ pc' = [pc EXCEPT ![p] = "g_refetch"]
            /\ UNCHANGED <<loc, lastResp>>
  /\ UNCHANGED <<orders, files, today, deliveries, genCalls>>
  /\ UNCHANGED notHookVars

\* the re-fetch of the invoice and the 200 answer: the PDF of the fetched
\* invoice, else the uploaded one
G_Refetch(p) ==
  /\ pc[p] = "g_refetch"
  /\ \E ok \in BOOLEAN :
       IF ok
       THEN \E fetched \in InvoicesByNumber(loc[p].invoiceNumber) :
              GenReturnOk(p, FALSE, fetched.pdf)
       ELSE GenReturnOk(p, FALSE, loc[p].fileId)
  /\ UNCHANGED <<invoices, files, today, deliveries, genCalls>>
  /\ UNCHANGED notHookVars

\* midnight on the server: new Date() gives the next calendar day
DayAdvance ==
  /\ today < MaxDay
  /\ today' = today + 1
  /\ UNCHANGED <<orders, invoices, files, pc, loc, lastResp, deliveries, genCalls>>
  /\ UNCHANGED notHookVars

HookInit ==
  /\ items = <<>>
  /\ products = [d \in ProductDocs |-> NoNum]
  /\ PrefEmpty
  /\ BackendEmpty
  /\ CartUntouched /\ PageUntouched /\ MailUntouched /\ AccessUntouched

\* no other request is being handled
Exclusive(p) == \A q \in Procs \ {p} : pc[q] = "idle"

\* requests arrive one at a time: a request starts when no other is being handled
SeqNext ==
  \/ \E body \in HookCreateBodies, orderNumberSet \in BOOLEAN :
       /\ \A q \in Procs : pc[q] = "idle"
       /\ OrdersCreate(body, orderNumberSet, MaxOrders)
  \/ \E h \in OneHook : Exclusive(h) /\ H_Receive(h)
  \/ \E h \in OneHook : H_Find(h)
  \/ \E h \in OneHook : H_Update(h)
  \/ \E h \in OneHook : H_Email(h)
  \/ \E g \in Gens : Exclusive(g) /\ G_Start(g)
  \/ \E p \in Procs : G_FetchOrder(p)
  \/ \E p \in Procs : G_Find(p)
  \/ \E p \in Procs : G_Upload(p)
  \/ \E p \in Procs : G_Create(p)
  \/ \E p \in Procs : G_Refetch(p)
  \/ DayAdvance

SpecSeq == HookInit /\ [][SeqNext]_vars

(* ------------------------------------------------------------------ *)
(* Claims about the webhook handler, order creation and invoice         *)
(* generation                                                           *)
(* ------------------------------------------------------------------ *)

AllIdle == \A p \in Procs : pc[p] = "idle"

\* C1: the webhook requests the confirmation email only in an invocation that
\* read a previous status other than paid and mapped the payment to paid, so an
\* order that is already paid gets no email from a further approved delivery:
\* with requests handled one at a time the email requests for an order are as
\* many as its changes into paid, and at most one when all deliveries were
\* approved ones.
C1_EmailOnlyOnTransitionToPaid ==
  /\ \A h \in Hooks :
       pc[h] = "email" =>
         /\ loc[h].prevStatus # "paid"
         /\ loc[h].nextStatus = "paid"
  /\ \A o \in 1..Len(orders) :
       /\ orders[o].emails <= orders[o].intoPaid
       /\ AllIdle => orders[o].emails = orders[o].intoPaid
       /\ ~orders[o].nonApproved => orders[o].emails <= 1

\* C1 witness: the approved notification was delivered twice for the order, the
\* second delivery found it paid, wrote paid again and requested no email: one
\* email request in total
C1_Witness ==
  /\ AllIdle
  /\ deliveries = 2
  /\ Len(orders) = 1
  /\ orders[1].hookWrote /\ ~orders[1].nonApproved
  /\ orders[1].orderStatus = "paid"
  /\ orders[1].emails = 1
  /\ lastResp.to \in Hooks /\ lastResp.why = "done" /\ ~lastResp.becamePaid

\* C2: after any number of deliveries of the approved notification for an order
\* (no other status delivered, the generate endpoint called by the webhook only)
\* the backend holds no more than one invoice record and no more than one
\* uploaded PDF for the order.
C2_OneInvoicePerOrder ==
  genCalls = 0 =>
    \A o \in 1..Len(orders) :
      (orders[o].hookWrote /\ ~orders[o].nonApproved) =>
        /\ Cardinality({inv \in invoices : inv.forOrder = o}) <= 1
        /\ Cardinality({f \in files : f.forOrder = o}) <= 1

\* C3: a direct call of the generate endpoint for an order for which an earlier
\* call already answered 200 renders, uploads and creates nothing, and when it
\* answers 200 it answers alreadyExists with the invoice number and the PDF of
\* the earlier answer.
C3_GenerateIdempotent ==
  /\ \A g \in Gens :
       loc[g].prior # <<>> => pc[g] \notin {"g_upload", "g_create", "g_refetch"}
  /\ (lastResp.to \in Gens /\ lastResp.status = 200 /\ lastResp.prior # <<>>) =>
       /\ lastResp.alreadyExists
       /\ lastResp.invoiceNumber = lastResp.prior[1].invoiceNumber
       /\ lastResp.pdfUrl = lastResp.prior[1].pdfUrl

\* the mapping of the claim: approved -> paid, rejected -> failed,
\* cancelled -> cancelled, anything else (a missing status included) -> pending
ClaimStatusFor(mpStatus) ==
  IF mpStatus = "approved" THEN "paid"
  ELSE IF mpStatus = "rejected" THEN "failed"
  ELSE IF mpStatus = "cancelled" THEN "cancelled"
  ELSE "pending"

\* C6: the order status the webhook writes is a function of the provider's
\* payment status: approved gives paid, rejected gives failed, cancelled gives
\* cancelled, every other value and a missing status give pending; it holds for
\* the status the handler is about to write and for every order it has written.
C6_StatusIsFunctionOfMpStatus ==
  /\ \A h \in Hooks :
       pc[h] = "update" => loc[h].nextStatus = ClaimStatusFor(loc[h].mpStatus)
  /\ \A o \in 1..Len(orders) :
       orders[o].hookWrote =>
         orders[o].orderStatus = ClaimStatusFor(orders[o].mpStatus)

\* C6 witness: a rejected payment was written as failed over an order that was paid
C6_Witness ==
  \E o \in 1..Len(orders) :
    /\ orders[o].hookWrote
    /\ orders[o].mpStatus = "rejected"
    /\ orders[o].orderStatus = "failed"
    /\ orders[o].intoPaid = 1

\* C7: every response of the webhook handler has HTTP status 200, whichever
\* return of the handler produced it.
C7_WebhookAlways200 ==
  lastResp.to \in Hooks => lastResp.status = 200

\* C7 witness: the handler answered after the backend refused its update
C7_Witness ==
  /\ lastResp.to \in Hooks
  /\ lastResp.why = "update_failed"
  /\ lastResp.status = 200

\* C8: an order that no webhook write has reached has status pending and no
\* payment metadata (payment id, provider status, status detail, merchant order
\* id), whatever the create request carried.
C8_StatusOnlyByWebhook ==
  \A o \in 1..Len(orders) :
    ~orders[o].hookWrote =>
      /\ orders[o].orderStatus = "pending"
      /\ orders[o].mpPaymentId = Null
      /\ orders[o].mpStatus = Null
      /\ orders[o].mpStatusDetail = Null
      /\ orders[o].mpMerchantOrderId = Null

\* C9: invoice generation goes past its status check only for an order it read
\* as paid: a call that reads another status answers 409, and every uploaded PDF
\* and every invoice record comes from a call that read paid; with requests
\* handled one at a time the order is still paid at the upload and at the
\* creation of the invoice.
C9_GenerateOnlyWhenPaid ==
  /\ \A inv \in invoices : inv.statusRead = "paid"
  /\ \A f \in files : f.statusRead = "paid"
  /\ \A p \in Procs :
       pc[p] \in {"g_find", "g_upload", "g_create", "g_refetch"} =>
         /\ loc[p].statusRead = "paid"
         /\ orders[loc[p].orderId].orderStatus = "paid"
  /\ (lastResp.to \in Gens /\ lastResp.statusRead \notin {Null, "paid"}) =>
       lastResp.status = 409
  /\ (lastResp.to \in Gens /\ lastResp.status = 409) =>
       lastResp.statusRead \notin {Null, "paid"}

\* C9 witness: a call for an order that a webhook write left in status failed
\* was answered 409, and the backend holds no invoice and no file
C9_Witness ==
  /\ lastResp.to \in Gens
  /\ lastResp.status = 409
  /\ lastResp.statusRead = "failed"
  /\ invoices = {}
  /\ files = {}

(* ================================================================== *)
(* Checkout page (src/unnamed/part_009): phase, polling effect,         *)
(* submission                                                           *)
(* ================================================================== *)

\* polls of one polling effect that may be in flight together (setInterval
\* starts a poll every 2.5 s whether or not the previous one has completed)
MaxPolls == 2

\* what the store and the page do not touch
notPageVars == <<orders, products, prefLog, prefResp, invoices, files, today,
                 pc, loc, lastResp, deliveries, genCalls, mail, access>>

\* the trimmed form fields, by what handleSubmit reads of them: their lengths
\* and whether the email holds an "@"; this one passes every check
ValidForm ==
  [ name |-> 2, emailHasAt |-> TRUE, phone |-> 6, street |-> 2, number |-> 1,
    city |-> 2, province |-> 2, postalCode |-> 4 ]

\* no poll completed yet
NoPoll == [result |-> "none", before |-> "form", alive |-> FALSE, late |-> FALSE]

\* the page after its first render and effects, opened with ?orderId=... and
\* ?status=... or without: useState initialiser, the effect that calls
\* router.replace("/gracias?...") when both are given, polling effect
\* (alive = true, first tick())
PageLoaded(redirectedOrderId, redirectedStatus) ==
  [ open    |-> TRUE,
    ui      |-> IF redirectedOrderId # "" THEN "checking" ELSE "form",
    orderId |-> redirectedOrderId,
    status  |-> redirectedStatus,
    replaced |-> redirectedOrderId # "" /\ redirectedStatus # "",
    reason  |-> Null,
    alive   |-> redirectedOrderId # "",
    polls   |-> IF redirectedOrderId # "" THEN 1 ELSE 0,
    late    |-> FALSE,
    last    |-> NoPoll,
    error   |-> Null,
    submitted |-> FALSE,
    form    |-> ValidForm,
    calls   |-> <<>>,
    href    |-> Null ]

\* priceWithOff(price, off)
priceWithOff(price, off) ==
  IF off # NoNum /\ off > 0 THEN MathRoundRatio(price * (100 - off), 100) ELSE price

\* the carts the page is opened with
CheckoutLines ==
  [ slug : {"a"}, qty : {1, MaxQty}, price : {0, 100}, off : {NoNum, 10} ]
CheckoutCarts ==
  {<<>>} \cup {<<a>> : a \in CheckoutLines}
         \cup {<<a, b>> : a \in CheckoutLines, b \in {x \in CheckoutLines : x.qty = 1}}

\* the order id of the query string ("" when absent)
OrderIdInputs == {"", "doc1"}
\* the status of the query string ("" when absent)
StatusInputs == {"", "approved"}

CheckoutInit ==
  /\ items \in CheckoutCarts
  /\ lastOp = NoOp
  /\ page \in {PageLoaded(o, st) : o \in OrderIdInputs, st \in StatusInputs}
  /\ products = [d \in ProductDocs |-> NoNum]
  /\ PrefEmpty
  /\ BackendEmpty
  /\ MailUntouched /\ AccessUntouched

\* ---- polling effect ----

\* what a poll of GET /api/orders/:id reads as orderStatus
PollStatuses == {"paid", "failed", "cancelled", "pending", Null}

\* setInterval(tick, 2500): a poll is started while the interval is not cleared
Tick ==
  /\ page.open /\ page.alive
  /\ page.polls < MaxPolls
  /\ page' = [page EXCEPT !.polls = @ + 1]
  /\ UNCHANGED <<items, lastOp>>
  /\ UNCHANGED notPageVars

\* Date.now() - startedAt passes 30 000 ms
After30s ==
  /\ page.open /\ page.ui # "form" /\ ~page.late
  /\ page' = [page EXCEPT !.late = TRUE]
  /\ UNCHANGED <<items, lastOp>>
  /\ UNCHANGED notPageVars

\* a poll completes with a response: the body of try in tick()
PollReturns(orderStatus) ==
  /\ page.open /\ page.polls > 0
  /\ LET done == [page EXCEPT !.polls = @ - 1,
                              !.last = [result |-> IF orderStatus = Null THEN "null"
                                                   ELSE orderStatus,
                                        before |-> page.ui,
                                        alive |-> page.alive, late |-> page.late]]
     IN  IF ~page.alive
         THEN page' = done /\ UNCHANGED <<items, lastOp>>
         ELSE IF orderStatus = "paid"
         THEN /\ page' = [done EXCEPT !.ui = "paid", !.reason = Null]
              /\ items' = <<>>
              /\ lastOp' = [op |-> "clear", slug |-> Null, before |-> <<>>]
         ELSE IF orderStatus \in {"failed", "cancelled"}
         THEN /\ page' = [done EXCEPT !.ui = "failed", !.reason = orderStatus]
              /\ UNCHANGED <<items, lastOp>>
         ELSE IF page.late
         THEN /\ page' = [done EXCEPT !.ui = "timeout", !.reason = Null]
              /\ UNCHANGED <<items, lastOp>>
         ELSE page' = done /\ UNCHANGED <<items, lastOp>>
  /\ UNCHANGED notPageVars

\* a catch of tick() that swallows the exception and never gives up
PollThrowsSilently ==
  /\ page.open /\ page.polls > 0
  /\ page' = [page EXCEPT !.polls = @ - 1,
                          !.last = [result |-> "throws",
                                    before |-> page.ui,
                                    alive |-> page.alive, late |-> page.late]]
  /\ UNCHANGED <<items, lastOp>>
  /\ UNCHANGED notPageVars

\* a poll completes with an exception (fetch or res.json() rejects): the catch
\* of tick(), which does not read alive
PollThrows ==
  /\ page.open /\ page.polls > 0
  /\ LET done == [page EXCEPT !.polls = @ - 1,
                              !.last = [result |-> "throws",
                                        before |-> page.ui,
                                        alive |-> page.alive, late |-> page.late]]
     IN  IF page.late
         THEN page' = [done EXCEPT !.ui = "timeout", !.reason = Null]
         ELSE page' = done
  /\ UNCHANGED <<items, lastOp>>
  /\ UNCHANGED notPageVars

\* the page re-renders after setUi and the effect's cleanup runs:
\* alive = false; clearInterval(id). The new effect returns at once (the
\* phase is not "checking").
EffectCleanup ==
  /\ page.open /\ page.alive /\ page.ui # "checking"
  /\ page' = [page EXCEPT !.alive = FALSE]
  /\ UNCHANGED <<items, lastOp>>
  /\ UNCHANGED notPageVars

\* ---- submission ----

\* the forms submitted: the valid one, and one per field that fails its check
FormInputs ==
  { ValidForm,
    [ValidForm EXCEPT !.name = 1],
    [ValidForm EXCEPT !.emailHasAt = FALSE],
    [ValidForm EXCEPT !.phone = 5],
    [ValidForm EXCEPT !.street = 1],
    [ValidForm EXCEPT !.number = 0],
    [ValidForm EXCEPT !.city = 1],
    [ValidForm EXCEPT !.province = 1],
    [ValidForm EXCEPT !.postalCode = 3],
    [ValidForm EXCEPT !.name = 1, !.postalCode = 3] }

\* the checks at the head of handleSubmit: the message of the first that
\* fails, Null when all pass
ValidationError(cartItems, form) ==
  IF Len(cartItems) = 0 THEN "Tu carrito esta vacio."
  ELSE IF form.name < 2 THEN "Ingresa un nombre valido."
  ELSE IF ~form.emailHasAt THEN "Ingresa un email valido."
  ELSE IF form.phone < 6 THEN "Ingresa un telefono valido."
  ELSE IF form.street < 2 THEN "Ingresa la calle."
  ELSE IF form.number < 1 THEN "Ingresa el numero/altura."
  ELSE IF form.city < 2 THEN "Ingresa la ciudad."
  ELSE IF form.province < 2 THEN "Ingresa la provincia."
  ELSE IF form.postalCode < 4 THEN "Ingresa un codigo postal valido."
  ELSE Null

\* what the quote service, order creation and preference creation answer
QuoteOutcomes == {"ok", "notOk", "throws"}
CreateOutcomes == {"ok", "notOk", "noOrderId"}
PrefOutcomes == {"ok", "notOk", "noUrl"}

\* fetchFinalQuote: the server's quote, or the local fallback when the
\* response is not ok or the request throws; it never throws itself
fetchFinalQuote(quote) == IF quote = "ok" THEN "server" ELSE "fallback"

\* mpItems: the lines with qty > 0 and a unit price above 0
mpItems(cartItems) ==
  SelectSeq(cartItems, LAMBDA it : /\ (IF normalizeQty(it.qty) > 1 THEN normalizeQty(it.qty) ELSE 1) > 0
                                   /\ priceWithOff(it.price, it.off) > 0)

\* the steps of a submission after the local checks, as the requests made and
\* whether each gave what the next step needs, with the error of the catch
SubmitSteps(cartItems, quote, create, pref) ==
  LET finalQuote == fetchFinalQuote(quote)
      q == [step |-> "quote", ok |-> quote = "ok", quote |-> finalQuote]
      c == [step |-> "create", ok |-> create = "ok", quote |-> finalQuote]
      p == [step |-> "preference", ok |-> pref = "ok", quote |-> finalQuote]
      r == [step |-> "redirect", ok |-> TRUE, quote |-> finalQuote]
  IN  IF create = "notOk"
      THEN [calls |-> <<q, c>>, error |-> "No se pudo crear la orden", href |-> Null]
      ELSE IF create = "noOrderId"
      THEN [calls |-> <<q, c>>, error |-> "No se recibio orderDocumentId/orderId",
            href |-> Null]
      ELSE IF Len(mpItems(cartItems)) = 0
      THEN [calls |-> <<q, c>>, error |-> "No hay items validos para MercadoPago.",
            href |-> Null]
      ELSE IF pref = "notOk"
      THEN [calls |-> <<q, c, p>>, error |-> "No se pudo crear la preferencia MP",
            href |-> Null]
      ELSE IF pref = "noUrl"
      THEN [calls |-> <<q, c, p>>, error |-> "MercadoPago no devolvio init_point",
            href |-> Null]
      ELSE [calls |-> <<q, c, p, r>>, error |-> Null, href |-> "checkoutUrl"]

\* handleSubmit: the form is shown only in phase "form"; after the redirect
\* the page is left
handleSubmit(form, quote, create, pref) ==
  /\ page.open /\ page.ui = "form" /\ page.href = Null
  /\ LET v == ValidationError(items, form)
         s == SubmitSteps(items, quote, create, pref)
     IN  page' = IF v # Null
                 THEN [page EXCEPT !.submitted = TRUE, !.form = form,
                                   !.error = v, !.calls = <<>>]
                 ELSE [page EXCEPT !.submitted = TRUE, !.form = form,
                                   !.error = s.error, !.calls = s.calls,
                                   !.href = s.href]
  /\ UNCHANGED <<items, lastOp>>
  /\ UNCHANGED notPageVars

CheckoutNext ==
  \/ Tick
  \/ After30s
  \/ \E orderStatus \in PollStatuses : PollReturns(orderStatus)
  \/ PollThrows
  \/ EffectCleanup
  \/ \E form \in FormInputs, quote \in QuoteOutcomes, create \in CreateOutcomes,
        pref \in PrefOutcomes : handleSubmit(form, quote, create, pref)

SpecCheckout == CheckoutInit /\ [][CheckoutNext]_vars

\* C14: while the phase is "checking" it only changes to "paid" on a poll
\* that read "paid" (the cart is emptied in that step), to "failed" on a poll
\* that read "failed" or "cancelled", to "timeout" on a poll completing after
\* the 30 seconds, the cart being left alone in the last two; and a phase of
\* "paid", "failed" or "timeout" is never changed by a later poll
C14_PollingTransitions ==
  [][ /\ (page.ui = "checking" /\ page'.ui # "checking") =>
           /\ page'.polls = page.polls - 1
           /\ \/ page'.ui = "paid" /\ page'.last.result = "paid" /\ items' = <<>>
              \/ /\ page'.ui = "failed"
                 /\ page'.last.result \in {"failed", "cancelled"}
                 /\ items' = items
              \/ /\ page'.ui = "timeout"
                 /\ page'.last.late
                 /\ page'.last.result \notin {"paid", "failed", "cancelled"}
                 /\ items' = items
      /\ page.ui \in {"paid", "failed", "timeout"} => page'.ui = page.ui
    ]_vars

\* C15: a submission makes its requests in the order quote, order creation,
\* preference creation, redirect, each only after the previous one succeeded;
\* an invalid field means no request at all, and a submission that does not
\* reach the redirect, or in which a step failed, shows an error
C15_SubmitStepsInOrder ==
  page.submitted =>
    LET order == <<"quote", "create", "preference", "redirect">>
        calls == page.calls
    IN  /\ Len(calls) <= Len(order)
        /\ \A k \in 1..Len(calls) : calls[k].step = order[k]
        /\ \A k \in 1..Len(calls) : k < Len(calls) => calls[k].ok
        /\ ValidationError(items, page.form) # Null => calls = <<>>
        /\ (Len(calls) < Len(order) \/ \E k \in 1..Len(calls) : ~calls[k].ok)
             => page.error # Null
        /\ page.href # Null <=> (Len(calls) = Len(order) /\ page.error = Null)

(* ================================================================== *)
(* Overlapping requests: the webhook handler and a direct call of       *)
(* invoices/generate run at the same time, their awaited backend calls  *)
(* interleaved; the calendar day does not change meanwhile              *)
(* ================================================================== *)

OverlapNext ==
  \/ \E body \in HookCreateBodies, orderNumberSet \in BOOLEAN :
       /\ \A q \in Procs : pc[q] = "idle"
       /\ OrdersCreate(body, orderNumberSet, MaxOrders)
  \/ \E h \in OneHook : H_Receive(h)
  \/ \E h \in OneHook : H_Find(h)
  \/ \E h \in OneHook : H_Update(h)
  \/ \E h \in OneHook : H_Email(h)
  \/ \E g \in Gens : G_Start(g)
  \/ \E p \in Procs : G_FetchOrder(p)
  \/ \E p \in Procs : G_Find(p)
  \/ \E p \in Procs : G_Upload(p)
  \/ \E p \in Procs : G_Create(p)
  \/ \E p \in Procs : G_Refetch(p)

SpecOverlap == HookInit /\ [][OverlapNext]_vars

\* C16: in every reachable backend state, overlapping generation calls for
\* one order included, no two invoice records carry the same invoice number
C16_OneInvoicePerNumber ==
  \A a, b \in invoices : a.number = b.number => a = b

(* ================================================================== *)
(* Email endpoint (POST /api/email/order-confirmation, in               *)
(* src/frontend/src/app/(shop)/mis-pedidos/[id]/page.tsx): one server   *)
(* process, its recentSends map, the provider                           *)
(* ================================================================== *)

\* the clock of the process in units of 5 seconds, and DEDUPE_WINDOW_MS
\* (10 000 ms) in the same units
MaxNow == 3
DEDUPE_WINDOW_MS == 2
\* requests handled by the process
MaxMails == 3

\* the requests the process can be handling at once
MailProcs == {"m1", "m2"}

\* what the email endpoint does not touch
notMailVars == <<items, orders, products, prefLog, prefResp, invoices, files,
                 today, pc, loc, lastResp, deliveries, genCalls, lastOp, page,
                 access>>

\* the request bodies: email, orderNumber, mpPaymentId, invoicePdfUrl
MailBodies ==
  { [email |-> "a@x", orderNumber |-> "AMG-0001", mpPaymentId |-> "pay1",
     invoicePdfUrl |-> Null],
    [email |-> "a@x", orderNumber |-> "AMG-0001", mpPaymentId |-> "pay1",
     invoicePdfUrl |-> "url"],
    [email |-> "a@x", orderNumber |-> "AMG-0001", mpPaymentId |-> Null,
     invoicePdfUrl |-> Null],
    [email |-> Null, orderNumber |-> "AMG-0001", mpPaymentId |-> "pay1",
     invoicePdfUrl |-> Null],
    [email |-> "a@x", orderNumber |-> Null, mpPaymentId |-> Null,
     invoicePdfUrl |-> Null] }

\* RESEND_API_KEY and EMAIL_FROM of the process
MailEnvInputs ==
  { [apiKey |-> TRUE, from |-> TRUE], [apiKey |-> FALSE, from |-> TRUE],
    [apiKey |-> TRUE, from |-> FALSE] }

\* what resend.emails.send gives: a result, a result carrying an error, or an
\* exception; an error has a message and a status code
ProviderErrors ==
  { [message |-> "Too Many Requests", statusCode |-> 429],
    [message |-> "rate limit exceeded", statusCode |-> 422],
    [message |-> "daily quota", statusCode |-> 429],
    [message |-> "invalid from", statusCode |-> 422] }
ProviderOutcomes ==
  { [how |-> "ok", err |-> [message |-> "", statusCode |-> 200]] } \cup
  { [how |-> h, err |-> e] : h \in {"returned", "thrown"}, e \in ProviderErrors }

\* looksRateLimitError(e); the second disjunct of the returned-error branch,
\* msg.toLowerCase().includes("too many requests"), is one of its cases
looksRateLimitError(e) ==
  \/ e.message \in {"Too Many Requests", "rate limit exceeded"}
  \/ e.statusCode = 429

\* the idempotency key: order-confirmation/<orderNumber>[/<mpPaymentId>]
idempotencyKey(body) == <<"order-confirmation", body.orderNumber, body.mpPaymentId>>

\* no request being handled
MailIdle ==
  [ pc |-> "idle",
    body |-> [email |-> Null, orderNumber |-> Null, mpPaymentId |-> Null,
              invoicePdfUrl |-> Null],
    entry |-> 0 ]

\* res.ok of the fetch API: a status in 200..299
ResOk(status) == status >= 200 /\ status <= 299

\* sendOrderConfirmationEmail of the webhook handler: throws when !res.ok
sendOrderConfirmationEmailThrows(status) == ~ResOk(status)

\* the process after start: nothing sent, nothing remembered
MailStarted(env) ==
  [ used |-> TRUE, env |-> env, now |-> 1,
    recentSends |-> {},
    reqs |-> [m \in MailProcs |-> MailIdle],
    handled |-> 0,
    log |-> <<>> ]

MailInit ==
  /\ mail \in {MailStarted(env) : env \in MailEnvInputs}
  /\ items = <<>>
  /\ products = [d \in ProductDocs |-> NoNum]
  /\ PrefEmpty
  /\ BackendEmpty
  /\ CartUntouched /\ PageUntouched /\ AccessUntouched

\* recentSends.get(key): the time stored for the key, 0 when there is none
RecentGet(map, key) ==
  IF \E e \in map : e.key = key THEN (CHOOSE e \in map : e.key = key).at ELSE 0

\* recentSends.set left out: nothing is remembered
RecentSetNothing(map, key, now) == map

\* recentSends.set(key, now)
RecentSet(map, key, now) ==
  {e \in map : e.key # key} \cup {[key |-> key, at |-> now]}

\* a log entry: a request that got past await req.json(), the time it read, its
\* key, whether it called the provider, and its answer (status 0: none yet)
MailEntry(body, now) ==
  [ body |-> body, key |-> idempotencyKey(body), at |-> now, checked |-> FALSE,
    sent |-> FALSE, outcome |-> "none", err |-> [message |-> "", statusCode |-> 0],
    status |-> 0, ok |-> FALSE,
    deduped |-> FALSE, rateLimited |-> FALSE, callerThrew |-> FALSE ]

\* the answer is written into the request's log entry, the handler is free
MailAnswer(m, entry, status, ok, deduped, rateLimited) ==
  [ entry EXCEPT !.status = status, !.ok = ok, !.deduped = deduped,
                 !.rateLimited = rateLimited,
                 !.callerThrew = sendOrderConfirmationEmailThrows(status) ]

\* Date.now() moves on
MailClock ==
  /\ mail.used /\ mail.now < MaxNow
  /\ mail' = [mail EXCEPT !.now = @ + 1]
  /\ UNCHANGED notMailVars

\* a request arrives: the environment checks, then await req.json()
M_Receive(m, body) ==
  /\ mail.used /\ mail.reqs[m].pc = "idle"
  /\ mail.handled < MaxMails
  /\ IF ~mail.env.apiKey \/ ~mail.env.from
     THEN mail' = [mail EXCEPT !.handled = @ + 1,
                     !.log = Append(@, MailAnswer(m, MailEntry(body, mail.now),
                                                  500, FALSE, FALSE, FALSE))]
     ELSE mail' = [mail EXCEPT !.handled = @ + 1,
                     !.reqs[m] = [pc |-> "body", body |-> body, entry |-> 0]]
  /\ UNCHANGED notMailVars

\* the provider is called: resend.emails.send(..., { idempotencyKey })
CallSend(entry) == [entry EXCEPT !.sent = TRUE]

\* after the body is read: field check, the recentSends check and set (no
\* await in between), the HTML; then the PDF fetch when a URL came, else the
\* call of the provider
M_Dedupe(m) ==
  /\ mail.used /\ mail.reqs[m].pc = "body"
  /\ LET body == mail.reqs[m].body
         now  == mail.now
         e    == MailEntry(body, now)
         k    == Len(mail.log) + 1
         last == RecentGet(mail.recentSends, idempotencyKey(body))
     IN  IF body.email = Null \/ body.orderNumber = Null
         THEN mail' = [mail EXCEPT
                         !.log = Append(@, MailAnswer(m, e, 400, FALSE, FALSE, FALSE)),
                         !.reqs[m] = MailIdle]
         ELSE IF last # 0 /\ now - last < DEDUPE_WINDOW_MS
         THEN mail' = [mail EXCEPT
                         !.log = Append(@, MailAnswer(m, [e EXCEPT !.checked = TRUE],
                                                      200, TRUE, TRUE, FALSE)),
                         !.reqs[m] = MailIdle]
         ELSE mail' = [mail EXCEPT
                         !.recentSends = RecentSet(@, idempotencyKey(body), now),
                         !.log = Append(@, IF body.invoicePdfUrl # Null
                                           THEN [e EXCEPT !.checked = TRUE]
                                           ELSE CallSend([e EXCEPT !.checked = TRUE])),
                         !.reqs[m] = [pc |-> IF body.invoicePdfUrl # Null
                                             THEN "attach" ELSE "sending",
                                      body |-> body, entry |-> k]]
  /\ UNCHANGED notMailVars

\* fetchPdfAsBase64 returns or throws (caught); the provider is called
M_Attach(m) ==
  /\ mail.used /\ mail.reqs[m].pc = "attach"
  /\ mail' = [mail EXCEPT !.log[mail.reqs[m].entry] = CallSend(@),
                          !.reqs[m].pc = "sending"]
  /\ UNCHANGED notMailVars

\* the answer to a provider outcome with the catch answering 500 to every
\* exception
SendAnswerCatchAll500(m, entry, out) ==
  IF out.how = "ok"
  THEN MailAnswer(m, entry, 200, TRUE, FALSE, FALSE)
  ELSE IF out.how = "thrown"
  THEN MailAnswer(m, entry, 500, FALSE, FALSE, FALSE)
  ELSE IF looksRateLimitError(out.err)
  THEN MailAnswer(m, entry, 202, FALSE, FALSE, TRUE)
  ELSE MailAnswer(m, entry, 502, FALSE, FALSE, FALSE)

\* the answer to a provider outcome: 200, or 202 on a rate limit, or 502 for
\* another returned error and 500 for another exception
SendAnswer(m, entry, out) ==
  IF out.how = "ok"
  THEN MailAnswer(m, entry, 200, TRUE, FALSE, FALSE)
  ELSE IF looksRateLimitError(out.err)
  THEN MailAnswer(m, entry, 202, FALSE, FALSE, TRUE)
  ELSE IF out.how = "returned"
  THEN MailAnswer(m, entry, 502, FALSE, FALSE, FALSE)
  ELSE MailAnswer(m, entry, 500, FALSE, FALSE, FALSE)

\* resend.emails.send settles
M_SendResult(m, out) ==
  /\ mail.used /\ mail.reqs[m].pc = "sending"
  /\ mail' = [mail EXCEPT
                !.log[mail.reqs[m].entry] =
                   [SendAnswer(m, @, out) EXCEPT !.outcome = out.how,
                                                 !.err = out.err],
                !.reqs[m] = MailIdle]
  /\ UNCHANGED notMailVars

MailNext ==
  \/ MailClock
  \/ \E m \in MailProcs, body \in MailBodies : M_Receive(m, body)
  \/ \E m \in MailProcs : M_Dedupe(m)
  \/ \E m \in MailProcs : M_Attach(m)
  \/ \E m \in MailProcs, out \in ProviderOutcomes : M_SendResult(m, out)

SpecMail == MailInit /\ [][MailNext]_vars

\* C17: within one process, of two requests with the same order number and
\* payment id that pass the field checks and read the clock less than the
\* de-duplication window apart, at most one calls the provider, however the
\* two handlers interleave, and one that does not call it is answered 200
\* with ok and deduped = true
C17_DedupeWithinWindow ==
  \A i, j \in 1..Len(mail.log) :
    ( /\ i < j
      /\ mail.log[i].checked /\ mail.log[j].checked
      /\ mail.log[i].body.orderNumber = mail.log[j].body.orderNumber
      /\ mail.log[i].body.mpPaymentId = mail.log[j].body.mpPaymentId
      /\ mail.log[j].at - mail.log[i].at < DEDUPE_WINDOW_MS )
    => /\ ~(mail.log[i].sent /\ mail.log[j].sent)
       /\ \E k \in {i, j} :
            /\ ~mail.log[k].sent
            /\ mail.log[k].status = 200 /\ mail.log[k].ok /\ mail.log[k].deduped

\* C17 witness: the second request was answered deduped while the first, with
\* the same order number and payment id, was still waiting for the provider
C17_Witness ==
  /\ Len(mail.log) >= 2
  /\ mail.log[1].checked /\ mail.log[1].sent /\ mail.log[1].status = 0
  /\ mail.log[2].checked /\ mail.log[2].deduped /\ ~mail.log[2].sent
  /\ mail.log[1].body.orderNumber = mail.log[2].body.orderNumber
  /\ mail.log[1].body.mpPaymentId = mail.log[2].body.mpPaymentId
  /\ mail.log[1].body.mpPaymentId # Null

\* a rate-limit error of the provider: status code 429, or a message that
\* says so
ClaimRateLimit(err) ==
  \/ err.statusCode = 429
  \/ err.message \in {"Too Many Requests", "rate limit exceeded"}

\* C18: a provider rate limit, returned in the result or thrown, is answered
\* with status 202, which the webhook's email call takes as success (it does
\* not throw)
C18_RateLimitIs202 ==
  \A k \in 1..Len(mail.log) :
    (mail.log[k].outcome \in {"returned", "thrown"} /\ ClaimRateLimit(mail.log[k].err))
    => /\ mail.log[k].status = 202
       /\ ~mail.log[k].callerThrew

\* C18 witness: one request met a returned rate limit and another a thrown
\* one, both were answered 202
C18_Witness ==
  \E i, j \in 1..Len(mail.log) :
    /\ mail.log[i].outcome = "returned" /\ ClaimRateLimit(mail.log[i].err)
    /\ mail.log[j].outcome = "thrown" /\ ClaimRateLimit(mail.log[j].err)
    /\ mail.log[i].status = 202 /\ mail.log[j].status = 202
    /\ ~mail.log[i].callerThrew /\ ~mail.log[j].callerThrew

(* ================================================================== *)
(* Order read endpoint (GET /api/orders/:id, in                         *)
(* src/frontend/src/app/api/invoices/my/route.ts) and invoice download  *)
(* endpoint (src/frontend/src/app/api/invoices/download/[invoiceId]/    *)
(* route.ts). Both only read the backend; here the backend rows carry   *)
(* the fields these handlers read.                                      *)
(* ================================================================== *)

\* what the two read endpoints do not touch
notAccessVars == <<items, orders, products, prefLog, prefResp, invoices, files,
                   today, pc, loc, lastResp, deliveries, genCalls, lastOp, page,
                   mail>>

\* email.trim().toLowerCase() on the addresses of the model
TrimLower(email) ==
  IF email \in {"Ana@X.com ", "ana@x.com"} THEN "ana@x.com" ELSE email

\* the users of the backend by session cookie: /api/users/me and /api/auth/me
UserOfSession(cookie) ==
  IF cookie = "jwt1" THEN [id |-> "1", email |-> "Ana@X.com "]
  ELSE IF cookie = "jwt2" THEN [id |-> "2", email |-> "bob@x.com"]
  ELSE [id |-> Null, email |-> Null]
Sessions == {"jwt1", "jwt2"}
\* the cookie of a request: none, one the backend does not know, a session
CookieInputs == {Null, "stale"} \cup Sessions

\* the order of the backend: its three keys, its user relation as
\* pickOwnerInfo finds it (a numeric id, or the user's documentId when the
\* relation carries no id) and its contact email
OwnedOrders ==
  [ documentId : {"doc1"}, id : {"1"}, orderNumber : {"AMG-0001"},
    user : {Null, "1", "2", "udoc1"},
    email : {Null, "ana@x.com", "Ana@X.com ", "bob@x.com"} ]

\* the invoice of the backend: its number, its order relation (none, an order
\* without user, an order with a user) and the URL of its PDF
InvoiceRows ==
  [ documentId : {"inv1"},
    number : {<<"RC", 1, "AMG-0001">>, <<"RC", 1, "AMG-0002">>, <<"RC", 1, "AMG-XXXX">>},
    order : {[exists |-> FALSE, user |-> Null], [exists |-> TRUE, user |-> Null],
             [exists |-> TRUE, user |-> "1"], [exists |-> TRUE, user |-> "2"]},
    pdfUrl : {Null, "/uploads/rc.pdf"} ]

AccessInit ==
  /\ orders \in {<<o>> : o \in OwnedOrders}
  /\ invoices \in {{i} : i \in InvoiceRows}
  /\ files = {}
  /\ today = 1
  /\ pc = [p \in Procs |-> "idle"]
  /\ loc = [p \in Procs |-> LocIdle]
  /\ lastResp = RespNone
  /\ deliveries = 0
  /\ genCalls = 0
  /\ items = <<>>
  /\ products = [d \in ProductDocs |-> NoNum]
  /\ PrefEmpty
  /\ access = AccessNone
  /\ CartUntouched /\ PageUntouched /\ MailUntouched

\* isNumeric(v): /^\d+$/
isNumeric(v) == v \in {"1", "2"}

\* the rows of a filter on one key
OrdersByKey(key, value) == {k \in 1..Len(orders) : orders[k][key] = value}

\* pickOwnerInfo(row)
pickOwnerInfo(row) ==
  [ userId |-> row.user,
    email  |-> IF row.email # Null THEN TrimLower(row.email) ELSE Null ]

\* authorizeAndReturn without the ownership test
OrderAuthorizedAnyUser(me, row) == TRUE

\* the ownership test of authorizeAndReturn
OrderAuthorized(me, row) ==
  LET own     == pickOwnerInfo(row)
      meEmail == IF me.email # Null THEN TrimLower(me.email) ELSE Null
      okByUser  == me.id # Null /\ own.userId # Null /\ own.userId = me.id
      okByEmail == meEmail # Null /\ own.email # Null /\ own.email = meEmail
  IN  okByUser \/ okByEmail

\* the answer of a request, with what the request was and what it resolved;
\* the handlers keep nothing from one request to the next, and one request
\* is followed from each backend state
AccessAnswer(op, cookie, meOk, id, via, row, status, data, fileFetched) ==
  [ used |-> TRUE, op |-> op, cookie |-> cookie, meOk |-> meOk, id |-> id,
    via |-> via, row |-> row, status |-> status, data |-> data,
    fileFetched |-> fileFetched ]

\* authorizeAndReturn(row): 403, or 200 with the order
authorizeAndReturn(cookie, id, via, k) ==
  IF OrderAuthorized(UserOfSession(cookie), orders[k])
  THEN AccessAnswer("orderRead", cookie, TRUE, id, via, k, 200, TRUE, FALSE)
  ELSE AccessAnswer("orderRead", cookie, TRUE, id, via, k, 403, FALSE, FALSE)

\* the order ids a request may name
OrderIdParams == {"", "doc1", "AMG-0001", "1", "doc9"}

\* GET /api/orders/:id; meOk, s1, s2, s3: whether the backend answers the
\* users/me call and the three order lookups (a failure other than 404)
OrderRead(cookie, idOrNumber, meOk, s1, s2, s3) ==
  /\ ~access.used
  /\ access' =
       IF cookie = Null
       THEN AccessAnswer("orderRead", cookie, meOk, idOrNumber, "none", 0, 401, FALSE, FALSE)
       ELSE IF idOrNumber = ""
       THEN AccessAnswer("orderRead", cookie, meOk, idOrNumber, "none", 0, 400, FALSE, FALSE)
       ELSE IF ~meOk \/ cookie \notin Sessions
       THEN AccessAnswer("orderRead", cookie, meOk, idOrNumber, "none", 0, 401, FALSE, FALSE)
       ELSE IF s1 /\ OrdersByKey("documentId", idOrNumber) # {}
       THEN authorizeAndReturn(cookie, idOrNumber, "documentId",
                               CHOOSE k \in OrdersByKey("documentId", idOrNumber) : TRUE)
       ELSE IF ~s1
       THEN AccessAnswer("orderRead", cookie, meOk, idOrNumber, "none", 0, 500, FALSE, FALSE)
       ELSE IF ~s2
       THEN AccessAnswer("orderRead", cookie, meOk, idOrNumber, "none", 0, 500, FALSE, FALSE)
       ELSE IF OrdersByKey("orderNumber", idOrNumber) # {}
       THEN authorizeAndReturn(cookie, idOrNumber, "orderNumber",
                               CHOOSE k \in OrdersByKey("orderNumber", idOrNumber) : TRUE)
       ELSE IF isNumeric(idOrNumber) /\ ~s3
       THEN AccessAnswer("orderRead", cookie, meOk, idOrNumber, "none", 0, 500, FALSE, FALSE)
       ELSE IF isNumeric(idOrNumber) /\ OrdersByKey("id", idOrNumber) # {}
       THEN authorizeAndReturn(cookie, idOrNumber, "numericId",
                               CHOOSE k \in OrdersByKey("id", idOrNumber) : TRUE)
       ELSE AccessAnswer("orderRead", cookie, meOk, idOrNumber, "none", 0, 404, FALSE, FALSE)
  /\ UNCHANGED notAccessVars

\* extractOrderNumberFromInvoiceNumber: the first AMG-<4 or more digits>
extractOrderNumberFromInvoiceNumber(number) ==
  IF number[3] \in {makeOrderNumber(n) : n \in 1..4} THEN number[3] ELSE Null

\* findOrderOwnerByOrderNumber: the first order with that number, its user id
\* and its email
findOrderOwnerByOrderNumber(orderNumber) ==
  IF OrdersByKey("orderNumber", orderNumber) = {}
  THEN [found |-> FALSE, ownerId |-> Null, orderEmail |-> Null]
  ELSE LET o == orders[CHOOSE k \in OrdersByKey("orderNumber", orderNumber) : TRUE]
       IN  [ found |-> TRUE,
             ownerId |-> IF o.user \in {"1", "2"} THEN o.user ELSE Null,
             orderEmail |-> IF o.email # Null THEN TrimLower(o.email) ELSE Null ]

\* the authorization of the download by the order number alone, the relation
\* not being read
DownloadAuthorizedByNumberOnly(me, inv, ownerOk) ==
  LET orderNumber == extractOrderNumberFromInvoiceNumber(inv.number)
      owner == findOrderOwnerByOrderNumber(orderNumber)
      meEmail == IF me.email # Null THEN TrimLower(me.email) ELSE Null
  IN  /\ orderNumber # Null
      /\ ownerOk /\ owner.found
      /\ \/ owner.ownerId # Null /\ owner.ownerId = me.id
         \/ meEmail # Null /\ owner.orderEmail # Null /\ meEmail = owner.orderEmail

\* the authorization of the download: the relation's user when there is one,
\* else the owner of the order named in the invoice number (ownerOk: the
\* backend answers that lookup)
DownloadAuthorized(me, inv, ownerOk) ==
  IF inv.order.exists /\ inv.order.user # Null
  THEN inv.order.user = me.id
  ELSE LET orderNumber == extractOrderNumberFromInvoiceNumber(inv.number)
           owner == findOrderOwnerByOrderNumber(orderNumber)
           meEmail == IF me.email # Null THEN TrimLower(me.email) ELSE Null
       IN  /\ orderNumber # Null
           /\ ownerOk /\ owner.found
           /\ \/ owner.ownerId # Null /\ owner.ownerId = me.id
              \/ meEmail # Null /\ owner.orderEmail # Null /\ meEmail = owner.orderEmail

\* the invoice ids a request may name
InvoiceIdParams == {"", "inv1", "inv9"}

\* GET /api/invoices/download/:invoiceId; meOk, tokenOk, invOk, ownerOk,
\* fileOk: the auth call answers, the server token is set, the backend answers
\* the invoice and the owner lookups, the file host answers
InvoiceDownload(cookie, invoiceId, meOk, tokenOk, invOk, ownerOk, fileOk) ==
  LET found == {i \in invoices : i.documentId = invoiceId}
      me    == UserOfSession(cookie)
  IN
  /\ ~access.used
  /\ access' =
       IF invoiceId = ""
       THEN AccessAnswer("download", cookie, meOk, invoiceId, "none", 0, 400, FALSE, FALSE)
       ELSE IF ~meOk \/ cookie \notin Sessions
       THEN AccessAnswer("download", cookie, meOk, invoiceId, "none", 0, 401, FALSE, FALSE)
       ELSE IF ~tokenOk
       THEN AccessAnswer("download", cookie, meOk, invoiceId, "none", 0, 500, FALSE, FALSE)
       ELSE IF ~invOk \/ found = {}
       THEN AccessAnswer("download", cookie, meOk, invoiceId, "none", 0, 500, FALSE, FALSE)
       ELSE LET inv == CHOOSE i \in found : TRUE
            IN  IF ~DownloadAuthorized(me, inv, ownerOk)
                THEN AccessAnswer("download", cookie, meOk, invoiceId, "invoice", 1,
                                  403, FALSE, FALSE)
                ELSE IF inv.pdfUrl = Null
                THEN AccessAnswer("download", cookie, meOk, invoiceId, "invoice", 1,
                                  404, FALSE, FALSE)
                ELSE AccessAnswer("download", cookie, meOk, invoiceId, "invoice", 1,
                                  IF fileOk THEN 200 ELSE 502, fileOk, TRUE)
  /\ UNCHANGED notAccessVars

AccessNext ==
  \/ \E cookie \in CookieInputs, idOrNumber \in OrderIdParams,
        meOk \in BOOLEAN, s1 \in BOOLEAN, s2 \in BOOLEAN, s3 \in BOOLEAN :
       OrderRead(cookie, idOrNumber, meOk, s1, s2, s3)
  \/ \E cookie \in CookieInputs, invoiceId \in InvoiceIdParams, meOk \in BOOLEAN,
        tokenOk \in BOOLEAN, invOk \in BOOLEAN, ownerOk \in BOOLEAN,
        fileOk \in BOOLEAN :
       InvoiceDownload(cookie, invoiceId, meOk, tokenOk, invOk, ownerOk, fileOk)

SpecAccess == AccessInit /\ [][AccessNext]_vars

\* two addresses are the same mailbox: equal up to case and surrounding blanks
ClaimSameAddress(a, b) == a = b \/ {a, b} \subseteq {"Ana@X.com ", "ana@x.com"}

\* the requester is authenticated: the cookie is a session the backend knows
ClaimAuthenticated == access.cookie \in Sessions /\ access.meOk

\* the order belongs to the user: by its user relation or by its email
ClaimOwnsOrder(me, row) ==
  \/ row.user # Null /\ row.user = me.id
  \/ row.email # Null /\ me.email # Null /\ ClaimSameAddress(row.email, me.email)

\* C19: the order read endpoint returns an order's data only to an
\* authenticated requester who owns the order (user relation or email), the
\* order being the one the request names; a request naming an order gets 401
\* when unauthenticated, and 403 when the order it resolved, by document id,
\* order number or numeric id, is not the requester's
C19_OrderReadOnlyByOwner ==
  (access.used /\ access.op = "orderRead") =>
    LET me == UserOfSession(access.cookie)
    IN  /\ access.data =>
             /\ ClaimAuthenticated
             /\ access.status = 200
             /\ access.row # 0
             /\ access.id \in {orders[access.row].documentId,
                               orders[access.row].orderNumber, orders[access.row].id}
             /\ ClaimOwnsOrder(me, orders[access.row])
        /\ (~ClaimAuthenticated /\ access.id # "") =>
             access.status = 401 /\ ~access.data
        /\ access.cookie = Null => access.status = 401 /\ ~access.data
        /\ (ClaimAuthenticated /\ access.row # 0
              /\ ~ClaimOwnsOrder(me, orders[access.row])) =>
             access.status = 403 /\ ~access.data

\* C19 witness: an order without a user relation is returned, looked up by its
\* numeric id, to the user whose email is the order's email up to case
C19_Witness ==
  /\ access.used /\ access.op = "orderRead"
  /\ access.via = "numericId" /\ access.data /\ access.status = 200
  /\ orders[access.row].user = Null
  /\ orders[access.row].email = "ana@x.com"
  /\ access.cookie = "jwt1"

\* the invoice belongs to the user: by the user of its order relation when
\* there is one, else by the user or the email of the order whose number is
\* in the invoice number
ClaimOwnsInvoice(me, inv) ==
  IF inv.order.exists /\ inv.order.user # Null
  THEN inv.order.user = me.id
  ELSE \E k \in 1..Len(orders) :
         /\ orders[k].orderNumber = inv.number[3]
         /\ ClaimOwnsOrder(me, orders[k])

\* C20: the download endpoint fetches the file only for an authenticated
\* requester who owns the invoice; a request naming an invoice gets 401 when
\* unauthenticated and 403 when the invoice is not the requester's, and in
\* both cases no file is fetched
C20_DownloadOnlyByOwner ==
  (access.used /\ access.op = "download") =>
    LET me  == UserOfSession(access.cookie)
        inv == CHOOSE i \in invoices : TRUE
    IN  /\ access.fileFetched =>
             /\ ClaimAuthenticated
             /\ access.row # 0 /\ inv.documentId = access.id
             /\ ClaimOwnsInvoice(me, inv)
        /\ access.data => access.fileFetched
        /\ (~ClaimAuthenticated /\ access.id # "") =>
             access.status = 401 /\ ~access.fileFetched
        /\ (ClaimAuthenticated /\ access.row # 0 /\ ~ClaimOwnsInvoice(me, inv)) =>
             access.status = 403 /\ ~access.fileFetched

\* C20 witness: the invoice has an order relation without user; its number
\* names the order of the requester (by email), and the file is streamed
C20_Witness ==
  /\ access.used /\ access.op = "download"
  /\ access.fileFetched /\ access.status = 200
  /\ \E i \in invoices : i.order.exists /\ i.order.user = Null
                         /\ i.number[3] = orders[1].orderNumber
  /\ orders[1].user = Null /\ orders[1].email = "Ana@X.com "
  /\ access.cookie = "jwt1"

(* ================================================================== *)
(* Concurrent webhook deliveries: two invocations of the handler in     *)
(* flight, their awaited backend calls interleaved; no direct call of   *)
(* invoices/generate, the calendar day does not change meanwhile        *)
(* ================================================================== *)

RaceNext ==
  \/ \E body \in HookCreateBodies, orderNumberSet \in BOOLEAN :
       /\ \A q \in Procs : pc[q] = "idle"
       /\ OrdersCreate(body, orderNumberSet, MaxOrders)
  \/ \E h \in Hooks : H_Receive(h)
  \/ \E h \in Hooks : H_Find(h)
  \/ \E h \in Hooks : H_Update(h)
  \/ \E h \in Hooks : H_Email(h)
  \/ \E h \in Hooks : G_FetchOrder(h)
  \/ \E h \in Hooks : G_Find(h)
  \/ \E h \in Hooks : G_Upload(h)
  \/ \E h \in Hooks : G_Create(h)
  \/ \E h \in Hooks : G_Refetch(h)

SpecRace == HookInit /\ [][RaceNext]_vars

\* C21: nothing serializes two concurrent invocations: an invocation requests
\* the email exactly on what it read itself (previous status not paid, mapped
\* status paid), whatever has been written since; so for an order that only
\* approved deliveries reached, every change into paid is followed by at
\* least one email request and there may be as many requests as deliveries
C21_ConcurrentDeliveriesBothEmail ==
  /\ \A h \in Hooks :
       pc[h] = "email" =>
         /\ loc[h].prevStatus # "paid"
         /\ loc[h].nextStatus = "paid"
  /\ \A o \in 1..Len(orders) :
       (AllIdle /\ ~orders[o].nonApproved) =>
         /\ orders[o].intoPaid <= orders[o].emails
         /\ orders[o].emails <= deliveries

\* C21 witness: both invocations read the order as pending, both status writes
\* have landed (the order is paid, changed into paid once) and both
\* invocations are at their email request
C21_Witness ==
  /\ pc["h1"] = "email" /\ pc["h2"] = "email"
  /\ loc["h1"].order = loc["h2"].order
  /\ loc["h1"].prevStatus = "pending" /\ loc["h2"].prevStatus = "pending"
  /\ orders[loc["h1"].order].orderStatus = "paid"
  /\ orders[loc["h1"].order].intoPaid = 1
  /\ ~orders[loc["h1"].order].nonApproved

(* ================================================================== *)
(* Webhook deliveries for an order in any status: the order exists,     *)
(* with a status the shop may have given it since its creation;         *)
(* deliveries are handled one at a time                                 *)
(* ================================================================== *)

\* the statuses of an order
OrderStatuses == {"pending", "paid", "failed", "cancelled", "shipped", "delivered"}

\* one order, created by a checkout, now in any of the statuses
AnyStatusInit ==
  /\ orders \in { << [CreatedOrder(body, 1, TRUE) EXCEPT !.orderStatus = st] >> :
                    body \in {b \in HookCreateBodies : b.orderStatus = Null},
                    st \in OrderStatuses }
  /\ invoices = {}
  /\ files = {}
  /\ today = 1
  /\ pc = [p \in Procs |-> "idle"]
  /\ loc = [p \in Procs |-> LocIdle]
  /\ lastResp = RespNone
  /\ deliveries = 0
  /\ genCalls = 0
  /\ items = <<>>
  /\ products = [d \in ProductDocs |-> NoNum]
  /\ PrefEmpty
  /\ CartUntouched /\ PageUntouched /\ MailUntouched /\ AccessUntouched

AnyStatusNext ==
  \/ \E h \in OneHook : Exclusive(h) /\ H_Receive(h)
  \/ \E h \in OneHook : H_Find(h)
  \/ \E h \in OneHook : H_Update(h)
  \/ \E h \in OneHook : H_Email(h)
  \/ \E h \in OneHook : G_FetchOrder(h)
  \/ \E h \in OneHook : G_Find(h)
  \/ \E h \in OneHook : G_Upload(h)
  \/ \E h \in OneHook : G_Create(h)
  \/ \E h \in OneHook : G_Refetch(h)

SpecAnyStatus == AnyStatusInit /\ [][AnyStatusNext]_vars

\* C22: a delivery that resolved a payment and found its order writes, unless
\* the backend refuses the request, the mapped status with the payment id, the
\* provider status, its detail and the merchant order id, whatever status the
\* order had; and every delivery that found its order comes to that write
C22_UnconditionalWrite ==
  [][ \A h \in Hooks :
        /\ (pc[h] = "find" /\ pc'[h] # "find") =>
             \/ pc'[h] = "update"
             \/ lastResp'.why \in {"order_search_failed", "order_not_found"}
        /\ (pc[h] = "update" /\ pc'[h] # "update") =>
             \/ lastResp'.to = h /\ lastResp'.why = "update_failed" /\ orders' = orders
             \/ LET o == loc[h].order
                IN  /\ orders'[o].orderStatus = ClaimStatusFor(loc[h].mpStatus)
                    /\ orders'[o].mpPaymentId = loc[h].paymentId
                    /\ orders'[o].mpStatus = loc[h].mpStatus
                    /\ orders'[o].mpStatusDetail = loc[h].mpStatusDetail
                    /\ orders'[o].mpMerchantOrderId = loc[h].mpMerchantOrderId
    ]_vars

\* C22 witness: the delivery of an approved payment found its order delivered
\* and wrote it back to paid
C22_Witness ==
  \E h \in Hooks :
    /\ pc[h] = "g_fetch"
    /\ loc[h].prevStatus = "delivered"
    /\ orders[loc[h].order].hookWrote
    /\ orders[loc[h].order].orderStatus = "paid"
    /\ orders[loc[h].order].mpStatus = "approved"

(* ================================================================== *)
(* Checkout page: when the phase is "checking"                        *)
(* ================================================================== *)

\* C23: the phase is "checking" (or what polling made of it) in exactly two
\* cases, after a submission whose order creation and preference creation
\* both succeeded, and when the page was loaded with both a status and an
\* order id in its query; in every other case the phase is "form"
C23_CheckingInTwoCases ==
  page.open =>
    LET submittedOk == /\ page.submitted
                       /\ \E k \in 1..Len(page.calls) :
                            page.calls[k].step = "create" /\ page.calls[k].ok
                       /\ \E k \in 1..Len(page.calls) :
                            page.calls[k].step = "preference" /\ page.calls[k].ok
        loadedWithBoth == page.orderId # "" /\ page.status # ""
    IN  IF submittedOk \/ loadedWithBoth
        THEN page.ui \in {"checking", "paid", "failed", "timeout"}
        ELSE page.ui = "form"

(* ================================================================== *)
(* Checkout page, polling that goes on: the clock advances, the        *)
(* interval keeps firing while it is not cleared, and every poll        *)
(* request completes, with a response or with an error                  *)
(* ================================================================== *)

\* a poll request completes
PollCompletes ==
  \/ \E orderStatus \in PollStatuses : PollReturns(orderStatus)
  \/ PollThrows

SpecCheckoutLive ==
  /\ CheckoutInit
  /\ [][CheckoutNext]_vars
  /\ WF_vars(After30s)
  /\ WF_vars(Tick)
  /\ WF_vars(PollCompletes)

TwoOrders == MaxOrders + 1

TwoOrdersNext ==
  \/ \E body \in {b \in HookCreateBodies : b.orderStatus = Null},
        orderNumberSet \in BOOLEAN :
       /\ \A q \in Procs : pc[q] = "idle"
       /\ OrdersCreate(body, orderNumberSet, TwoOrders)
  \/ \E h \in OneHook : Exclusive(h) /\ H_Receive(h)
  \/ \E h \in OneHook : H_Find(h)
  \/ \E h \in OneHook : H_Update(h)
  \/ \E h \in OneHook : H_Email(h)
  \/ \E h \in OneHook : G_FetchOrder(h)
  \/ \E h \in OneHook : G_Find(h)
  \/ \E h \in OneHook : G_Upload(h)
  \/ \E h \in OneHook : G_Create(h)
  \/ \E h \in OneHook : G_Refetch(h)

SpecTwoOrders == HookInit /\ [][TwoOrdersNext]_vars

\* the status and payment metadata of an order
PaymentData(order) ==
  [ orderStatus |-> order.orderStatus,
    mpPaymentId |-> order.mpPaymentId,
    mpStatus |-> order.mpStatus,
    mpStatusDetail |-> order.mpStatusDetail,
    mpMerchantOrderId |-> order.mpMerchantOrderId,
    mpExternalReference |-> order.mpExternalReference ]

\* C25: a step of a webhook delivery changes the status or payment metadata
\* of no order but the one it found, whose stored reference is the payment's
\* external reference, and it does so only in its one update step
C25_OnlyTheMatchingOrder ==
  [][ \A o \in 1..Len(orders) :
        PaymentData(orders'[o]) # PaymentData(orders[o]) =>
          \E h \in Hooks :
            /\ pc[h] = "update" /\ pc'[h] # "update"
            /\ o = loc[h].order
            /\ orders[o].mpExternalReference = loc[h].mpExternalReference
            /\ \A other \in 1..Len(orders) \ {o} :
                 PaymentData(orders'[other]) = PaymentData(orders[other])
    ]_vars

\* C25 witness: of two orders stored with the same reference, a delivery for
\* that reference wrote one and left the other as created
C25_Witness ==
  /\ Len(orders) = 2
  /\ orders[1].mpExternalReference = orders[2].mpExternalReference
  /\ \E o \in {1, 2} :
       /\ orders[o].hookWrote /\ orders[o].mpStatus = "approved"
       /\ orders[o].orderStatus = "paid"
       /\ ~orders[3 - o].hookWrote
       /\ orders[3 - o].orderStatus = "pending"
       /\ orders[3 - o].mpStatus = Null
  /\ AllIdle

(* ================================================================== *)
(* Cart store: which lines an operation by slug touches, and the       *)
(* identity keys of the lines                                           *)
(* ================================================================== *)

\* C26: removeItem(slug), inc(slug) and dec(slug) leave the cart as it was
\* when no line has that slug, and otherwise remove or rewrite exactly one
\* line, of that slug, every other line staying as it was and where it was
C26_OnlyTheLineOfTheSlug ==
  lastOp.op \in {"removeItem", "inc", "dec"} =>
    LET before == lastOp.before
        idx == {k \in 1..Len(before) : before[k].slug = lastOp.slug}
        without(k) == [j \in 1..(Len(before) - 1) |->
                         IF j < k THEN before[j] ELSE before[j + 1]]
    IN  IF idx = {} THEN items = before
        ELSE \E k \in idx :
               \/ items = without(k)
               \/ /\ Len(items) = Len(before)
                  /\ \A j \in 1..Len(before) : j # k => items[j] = before[j]

\* the identity key of the claim: the documentId when present, else the slug
ClaimKey(i) == IF i.documentId # Null THEN i.documentId ELSE i.slug

\* C27: in every cart reached from the empty one no two lines have the same
\* identity key; and addItem either appends one line, whose key no line had,
\* or appends nothing, leaves every line its key and its place and rewrites
\* the quantity (and the stock it goes by) of at most one line
C27_KeysUnique ==
  /\ \A j, k \in 1..Len(items) : j # k => ClaimKey(items[j]) # ClaimKey(items[k])
  /\ lastOp.op = "addItem" =>
       LET before == lastOp.before
       IN  \/ /\ Len(items) = Len(before) + 1
              /\ \A k \in 1..Len(before) :
                   /\ items[k] = before[k]
                   /\ ClaimKey(before[k]) # ClaimKey(items[Len(items)])
           \/ /\ Len(items) = Len(before)
              /\ \A k \in 1..Len(before) :
                   /\ items[k].documentId = before[k].documentId
                   /\ items[k].slug = before[k].slug
              /\ Cardinality({k \in 1..Len(before) : items[k] # before[k]}) <= 1

\* C27 witness: addItem for a product whose key was in the cart has raised the
\* quantity of that line, in a cart of two lines with the same slug and
\* different keys
C27_Witness ==
  /\ lastOp.op = "addItem"
  /\ Len(items) = 2 /\ Len(lastOp.before) = 2
  /\ items[1].slug = items[2].slug
  /\ ClaimKey(items[1]) # ClaimKey(items[2])
  /\ \E k \in {1, 2} : items[k].qty > lastOp.before[k].qty

(* ================================================================== *)
(* Webhook handler: the order of its write, its invoice request and    *)
(* its email request, and the deliveries that end early                 *)
(* ================================================================== *)

\* the positions of a handler inside the generate endpoint
GenSteps == {"g_fetch", "g_find", "g_upload", "g_create", "g_refetch"}

\* C28: within one invocation of the webhook handler the generate endpoint is
\* running only once the status write has landed, the email step is entered
\* only from the return of the generation attempt (or, in the step of the
\* write itself, when that attempt did not reach the endpoint), and an
\* invocation whose write failed ends there, with no invoice, file or email
C28_WriteThenInvoiceThenEmail ==
  /\ [](\A h \in Hooks :
          pc[h] \in GenSteps \cup {"email"} =>
            /\ orders[loc[h].order].hookWrote
            /\ orders[loc[h].order].orderStatus = loc[h].nextStatus
            /\ loc[h].nextStatus = "paid")
  /\ [][ \A h \in Hooks :
           /\ (pc'[h] \in GenSteps /\ pc[h] \notin GenSteps) =>
                /\ pc[h] = "update"
                /\ orders'[loc[h].order].hookWrote
                /\ orders'[loc[h].order].orderStatus = "paid"
           /\ (pc'[h] = "email" /\ pc[h] # "email") =>
                \/ pc[h] \in GenSteps
                \/ pc[h] = "update" /\ orders'[loc[h].order].hookWrote
           /\ ( /\ pc[h] = "update" /\ pc'[h] = "idle"
                /\ lastResp'.to = h /\ lastResp'.why = "update_failed" ) =>
                orders' = orders /\ invoices' = invoices /\ files' = files
     ]_vars

\* C28 witness: an invocation is at its email request after its write landed
\* and the generate endpoint answered 200 with an invoice
C28_Witness ==
  \E h \in Hooks :
    /\ pc[h] = "email"
    /\ orders[loc[h].order].hookWrote
    /\ loc[h].gen # <<>>
    /\ orders[loc[h].order].emails = 0
    /\ invoices # {}

\* the answers of a delivery that ends before the write
EarlyEnds ==
  {"no_id", "unsupported_topic", "no_payment_yet", "payment_fetch_failed",
   "missing_external_reference", "order_not_found"}

\* C29: a delivery that ends early (no notification id, unsupported topic,
\* merchant order without a payment, failed payment fetch, payment without
\* reference, no order for the reference) ends from its first step or from
\* the order lookup, and neither of those steps changes an order, an invoice
\* or a file or requests an email
C29_EarlyEndsChangeNothing ==
  [][ \A h \in Hooks :
        /\ (pc[h] = "idle" /\ deliveries' # deliveries) =>
             /\ pc'[h] \in {"idle", "find"}
             /\ orders' = orders /\ invoices' = invoices /\ files' = files
        /\ (pc[h] = "find" /\ pc'[h] # "find") =>
             /\ pc'[h] \in {"idle", "update"}
             /\ orders' = orders /\ invoices' = invoices /\ files' = files
        /\ ( /\ pc'[h] = "idle"
             /\ pc[h] # "idle" \/ deliveries' # deliveries
             /\ lastResp'.to = h /\ lastResp'.why \in EarlyEnds ) =>
             /\ pc[h] \in {"idle", "find"}
             /\ orders' = orders /\ invoices' = invoices /\ files' = files
    ]_vars

\* C29 witness: a delivery for a reference no order has was answered, the one
\* order stored being as it was created, with no invoice, file or email
C29_Witness ==
  /\ AllIdle
  /\ deliveries = 1
  /\ lastResp.to \in Hooks /\ lastResp.why = "order_not_found"
  /\ Len(orders) = 1
  /\ ~orders[1].hookWrote /\ orders[1].emails = 0
  /\ orders[1].orderStatus = "pending" /\ orders[1].mpStatus = Null
  /\ invoices = {} /\ files = {}

(* ================================================================== *)
(* Email endpoint: what an answer with deduped = true stands for       *)
(* ================================================================== *)

\* C30: a request answered ok with deduped = true comes after a request with
\* the same key whose provider send was accepted
C30_DedupedMeansAccepted ==
  \A j \in 1..Len(mail.log) :
    (mail.log[j].status = 200 /\ mail.log[j].ok /\ mail.log[j].deduped) =>
      \E i \in 1..(j - 1) :
        /\ mail.log[i].key = mail.log[j].key
        /\ mail.log[i].sent
        /\ mail.log[i].outcome = "ok"

====
